---- MODULE Spec2Model ----
(***************************************************************************)
(* State-machine model of the secure WebSocket/PostgreSQL gateway:         *)
(*   - InputValidator           (security/validation)                      *)
(*   - AuthenticationManager    (security/auth)                            *)
(*   - PostgreSQLClient         (database/client)                          *)
(*   - SecureWebSocketServer    (websocket/secure-server)                  *)
(*                                                                         *)
(* The specifications share the module's variables:                        *)
(*   SpecFn    the pure functions applied to enumerated inputs             *)
(*   SpecSql   validateSQL called again and again                          *)
(*   SpecVal   validateString and validateWebSocketMessage called again    *)
(*   SpecDb    PostgreSQLClient.query with callers suspended in the driver *)
(*   SpecLife  PostgreSQLClient across connect() and disconnect()          *)
(*   SpecCache PostgreSQLClient.query over statements with string literals *)
(*   SpecAuth  AuthenticationManager with a clock                          *)
(*   Spec      SecureWebSocketServer: connections, frames, handlers        *)
(*   SpecTimed the gateway with the rate-limit window passing              *)
(*   SpecIdle  the gateway with the idle sweep                             *)
(*   SpecAudit the gateway with its audit log at capacity                  *)
(*   SpecReply the gateway answering frames with and without an id         *)
(*   SpecExec  the gateway over the PostgreSQLClient                       *)
(***************************************************************************)
EXTENDS Integers, Sequences, FiniteSets, TLC

VARIABLES
    now,            \* Date.now(), milliseconds
    \* ---- pure-function harness
    fnIn,           \* the arguments drawn for the call
    fnOut,          \* what the function returned ("none" before the call)
    lastIndex,      \* the lastIndex of each regular expression of XSS_PATTERNS
    \* ---- PostgreSQLClient
    pool,           \* this.pool !== null
    dbLifecycle,    \* where the connect() or disconnect() call is suspended, "idle" if none
    poolLeased,     \* pooled connections handed to query() and not yet released
    queryCache,     \* this.queryCache, a Map in insertion order
    performanceMetrics, \* this.performanceMetrics
    dbCalls,        \* query() invocations: where each one is suspended
    dbReturned,     \* the latest query() call to settle and what it gave its caller
    driverCalls,    \* how many statements the pg driver was asked to execute
    dbData,         \* the database content, as a version counter
    dbBegun,        \* query() calls that found the client connected
    dbConfig,       \* this.config of the client (enableCache)
    \* ---- AuthenticationManager
    rateLimits,     \* this.rateLimits: address -> RateLimitInfo
    sessions,       \* this.sessions: the tokens it holds a payload for
    issued,         \* the tokens handed out to clients, with what they were issued for
    authResult,     \* the latest AuthResult returned
    \* ---- SecureWebSocketServer
    gwConfig,       \* this.config: requireAuth, enableAuditLog
    sockets,        \* each connection's socket: "none", "open", "closing" or "closed"
    received,       \* how many frames each connection's socket has delivered
    lastFrameAt,    \* when each connection's socket was accepted or last delivered a frame
    authenticatedClients, \* this.authenticatedClients: clientId -> AuthenticatedClient
    handlers,       \* handleMessage invocations suspended at an await
    auditLog,       \* this.auditLog
    sent,           \* the envelopes written to sockets by the latest step, in order
    effects,        \* the latest step's socket writes and audit-log appends, in the order made
    executorCalls   \* how many times dbClient.query was called

fnVars == <<fnIn, fnOut, lastIndex>>
dbVars == <<pool, dbLifecycle, poolLeased, queryCache, performanceMetrics, dbCalls, dbReturned,
           driverCalls, dbData, dbBegun, dbConfig>>
authVars == <<rateLimits, sessions, issued, authResult>>
gwVars == <<gwConfig, sockets, received, lastFrameAt, authenticatedClients, handlers, auditLog, sent,
           effects, executorCalls>>
nonDbVars == <<fnVars, authVars, gwVars>>
nonAuthVars == <<fnVars, dbVars, gwVars>>
vars == <<now, fnVars, dbVars, authVars, gwVars>>

(***************************************************************************)
(* Text.  A string is a sequence of chunks; a chunk is a run of characters *)
(* that the code's string tests never split: no keyword the code looks for *)
(* straddles two chunks or lies strictly inside one.  "x" is a word        *)
(* character, so <<"select","x">> is the text "selectx".                   *)
(***************************************************************************)
Chunks ==
    {"select", "SELECT", "insert", "update", "delete", "create", "drop",
     "alter", "truncate", "union", "or 1=1", "--", ";", " ", "x"}

\* String.prototype.toLowerCase, per chunk
LowerChunk(ch) ==
    CASE ch = "SELECT" -> "select"
      [] ch = "'A'" -> "'a'"
      [] OTHER -> ch

ToLowerCase(s) == [i \in 1..Len(s) |-> LowerChunk(s[i])]

IsSpace(ch) == ch = " "

RECURSIVE TrimStart(_)
TrimStart(s) ==
    IF s # <<>> /\ IsSpace(Head(s)) THEN TrimStart(Tail(s)) ELSE s

RECURSIVE TrimEnd(_)
TrimEnd(s) ==
    IF s # <<>> /\ IsSpace(s[Len(s)]) THEN TrimEnd(SubSeq(s, 1, Len(s) - 1)) ELSE s

\* String.prototype.trim
Trim(s) == TrimEnd(TrimStart(s))

\* String.prototype.startsWith(kw), kw one of the keyword chunks
StartsWith(s, kw) == s # <<>> /\ s[1] = kw

\* String.prototype.includes(kw), kw one of the keyword chunks
Includes(s, kw) == \E i \in 1..Len(s) : s[i] = kw

\* \w at the end / start of a chunk, for the \b of the regular expressions
EndsInWordChar(ch) == ch \notin {"--", ";", " "}
StartsWithWordChar(ch) == ch \notin {"--", ";", " "}
StartsWithLetter(ch) == ch \notin {"--", ";", " "}

\* chunk i of s stands between two word boundaries
WordAt(s, i) ==
    /\ (i = 1 \/ ~EndsInWordChar(s[i - 1]))
    /\ (i = Len(s) \/ ~StartsWithWordChar(s[i + 1]))

\* chunk i of s has a word boundary before it
BoundaryBefore(s, i) == i = 1 \/ ~EndsInWordChar(s[i - 1])

MaxSqlLen == 3

RECURSIVE SeqsUpTo(_, _)
SeqsUpTo(S, n) ==
    IF n = 0 THEN {<<>>}
    ELSE LET shorter == SeqsUpTo(S, n - 1)
         IN  shorter \cup {Append(s, c) : s \in {t \in shorter : Len(t) = n - 1}, c \in S}

SqlTexts == SeqsUpTo(Chunks, MaxSqlLen)

(***************************************************************************)
(* InputValidator                                                          *)
(***************************************************************************)
\* detectQueryType
detectQueryType(sql) ==
    LET trimmed == ToLowerCase(Trim(sql))
    IN  CASE StartsWith(trimmed, "select") -> "SELECT"
          [] StartsWith(trimmed, "insert") -> "INSERT"
          [] StartsWith(trimmed, "update") -> "UPDATE"
          [] StartsWith(trimmed, "delete") -> "DELETE"
          [] StartsWith(trimmed, "create") -> "CREATE"
          [] StartsWith(trimmed, "drop") -> "DROP"
          [] StartsWith(trimmed, "alter") -> "ALTER"
          [] OTHER -> "UNKNOWN"

\* String.prototype.toUpperCase / toLowerCase on the names of statement kinds
KindOfKeyword(kw) ==
    CASE kw = "select" -> "SELECT"
      [] kw = "insert" -> "INSERT"
      [] kw = "update" -> "UPDATE"
      [] kw = "delete" -> "DELETE"
      [] kw = "create" -> "CREATE"
      [] kw = "drop" -> "DROP"
      [] kw = "alter" -> "ALTER"
      [] kw = "truncate" -> "TRUNCATE"
      [] OTHER -> "OTHER"

\* SQL_INJECTION_PATTERNS, those the chunks can spell, tested on the raw text
\* /(\bunion\b.*\bselect\b)/i
MatchesUnionSelect(sql) ==
    LET s == ToLowerCase(sql)
    IN  \E i, j \in 1..Len(s) :
            i < j /\ s[i] = "union" /\ WordAt(s, i) /\ s[j] = "select" /\ WordAt(s, j)

RECURSIVE SkipSpaces(_, _)
SkipSpaces(s, i) == IF i <= Len(s) /\ IsSpace(s[i]) THEN SkipSpaces(s, i + 1) ELSE i

\* /--\s*[a-zA-Z]/
MatchesLineComment(sql) ==
    \E i \in 1..Len(sql) :
        /\ sql[i] = "--"
        /\ LET j == SkipSpaces(sql, i + 1)
           IN  j <= Len(sql) /\ StartsWithLetter(sql[j])

\* /;\s*(?:drop|truncate|alter|grant|revoke|exec|execute)\b/i
MatchesStackedQuery(sql) ==
    LET s == ToLowerCase(sql)
    IN  \E i \in 1..Len(s) :
            /\ s[i] = ";"
            /\ LET j == SkipSpaces(s, i + 1)
               IN  /\ j <= Len(s)
                   /\ s[j] \in {"drop", "truncate", "alter"}
                   /\ (j = Len(s) \/ ~StartsWithWordChar(s[j + 1]))

\* /(\bor\b|\band\b)\s+\d+\s*=\s*\d+/i
MatchesBooleanBlind(sql) ==
    \E i \in 1..Len(sql) : sql[i] = "or 1=1" /\ BoundaryBefore(sql, i)

InjectionPatterns == {"union_select", "line_comment", "stacked_query", "boolean_blind"}

MatchesPattern(p, sql) ==
    CASE p = "union_select" -> MatchesUnionSelect(sql)
      [] p = "line_comment" -> MatchesLineComment(sql)
      [] p = "stacked_query" -> MatchesStackedQuery(sql)
      [] p = "boolean_blind" -> MatchesBooleanBlind(sql)
      [] OTHER -> FALSE

\* DANGEROUS_SQL_KEYWORDS, those the chunks can spell
DANGEROUS_SQL_KEYWORDS == {"drop", "delete", "truncate", "alter", "create"}

\* a validation that never looks at the injection patterns
validateSQLErrorsNoInjection(sql, allowedOperations) ==
    LET normalizedSQL == ToLowerCase(Trim(sql))
        queryType == detectQueryType(normalizedSQL)
        foundDangerous ==
            {kw \in DANGEROUS_SQL_KEYWORDS :
                /\ Includes(normalizedSQL, kw)
                /\ ~(KindOfKeyword(kw) = queryType /\ queryType \in allowedOperations)}
    IN  (IF queryType \notin allowedOperations
            THEN {<<"type_not_allowed", queryType>>} ELSE {})
        \cup (IF foundDangerous # {} THEN {<<"dangerous_keywords", foundDangerous>>} ELSE {})

\* validateSQL: the errors it collects, as a set of (kind, detail) pairs
validateSQLErrors(sql, allowedOperations) ==
    LET normalizedSQL == ToLowerCase(Trim(sql))
        queryType == detectQueryType(normalizedSQL)
        foundDangerous ==
            {kw \in DANGEROUS_SQL_KEYWORDS :
                /\ Includes(normalizedSQL, kw)
                /\ ~(KindOfKeyword(kw) = queryType /\ queryType \in allowedOperations)}
    IN  (IF queryType \notin allowedOperations
            THEN {<<"type_not_allowed", queryType>>} ELSE {})
        \cup {<<"injection", p>> : p \in {q \in InjectionPatterns : MatchesPattern(q, sql)}}
        \cup (IF foundDangerous # {} THEN {<<"dangerous_keywords", foundDangerous>>} ELSE {})

validateSQLWarnings(sql) ==
    IF Includes(ToLowerCase(Trim(sql)), "or 1=1") THEN {"1=1"} ELSE {}

validateSQL(sql, allowedOperations) ==
    IF sql = <<>>
    THEN [isValid |-> FALSE, isSafe |-> FALSE,
          errors |-> {<<"empty", "SQL query must be a non-empty string">>},
          warnings |-> {}, queryType |-> "UNKNOWN"]
    ELSE LET errors == validateSQLErrors(sql, allowedOperations)
             warnings == validateSQLWarnings(sql)
         IN  [isValid |-> errors = {},
              isSafe |-> errors = {} /\ warnings = {},
              errors |-> errors,
              warnings |-> warnings,
              queryType |-> detectQueryType(ToLowerCase(Trim(sql)))]

(***************************************************************************)
(* InputValidator: strings.  A string here is a sequence of the chunks     *)
(* below; every match of an XSS pattern is exactly one chunk, and offsets  *)
(* are counted in characters.                                              *)
(***************************************************************************)
XssChunks == {"<script>x</script>", "javascript:", "onload=", "x", "<", "sql"}

\* String.prototype.length of a chunk
ChunkLen(ch) ==
    CASE ch = "<script>x</script>" -> 18
      [] ch = "javascript:" -> 11
      [] ch = "onload=" -> 7
      [] ch = "sql" -> 3
      [] ch = "payload" -> 7
      [] ch = "note" -> 4
      [] ch = "&lt;" -> 4
      [] OTHER -> 1

RECURSIVE TextLen(_)
TextLen(s) == IF s = <<>> THEN 0 ELSE ChunkLen(Head(s)) + TextLen(Tail(s))

\* the character offset at which chunk i of s starts
OffsetOf(s, i) == TextLen(SubSeq(s, 1, i - 1))

\* XSS_PATTERNS, in array order, those the chunks can spell; all carry the g flag
XSS_PATTERNS == <<"script", "javascript", "handler">>

\* the chunk is a match of the pattern
XssMatch(p, ch) ==
    CASE p = "script" -> ch = "<script>x</script>"
      [] p = "javascript" -> ch = "javascript:"
      [] p = "handler" -> ch = "onload="
      [] OTHER -> FALSE

\* RegExp.prototype.test of a global expression: the search starts at lastIndex; a
\* match moves lastIndex to its end, a failure sets it to 0
regexTest(p, input, from) ==
    LET hits == {i \in 1..Len(input) : XssMatch(p, input[i]) /\ OffsetOf(input, i) >= from}
        first == CHOOSE i \in hits : \A j \in hits : i <= j
    IN  IF hits = {}
        THEN [found |-> FALSE, lastIndex |-> 0]
        ELSE [found |-> TRUE, lastIndex |-> OffsetOf(input, first) + ChunkLen(input[first])]

\* validateString's loop over XSS_PATTERNS from the k-th on, with its `break`:
\* whether a pattern matched, and every lastIndex afterwards
RECURSIVE scanXss(_, _, _)
scanXss(k, input, li) ==
    IF k > Len(XSS_PATTERNS)
    THEN [found |-> FALSE, lastIndex |-> li]
    ELSE LET p == XSS_PATTERNS[k]
             t == regexTest(p, input, li[p])
             after == [li EXCEPT ![p] = t.lastIndex]
         IN  IF t.found
             THEN [found |-> TRUE, lastIndex |-> after]
             ELSE scanXss(k + 1, input, after)

\* sanitizeString: script tags, javascript: URLs and event handlers are
\* removed (by expressions of its own), then the reserved characters escaped
sanitizeString(input) ==
    LET kept == SelectSeq(input, LAMBDA ch : \A p \in {"script", "javascript", "handler"} :
                                                ~XssMatch(p, ch))
    IN  [i \in 1..Len(kept) |-> IF kept[i] = "<" THEN "&lt;" ELSE kept[i]]

\* String.prototype.length > maxLength, for the default maxLength
DefaultMaxLength == 1000

\* validateString(input): its result and every lastIndex afterwards
validateString(input, li) ==
    LET scan == scanXss(1, input, li)
        errors == (IF TextLen(input) > DefaultMaxLength THEN {"too_long"} ELSE {})
                  \cup (IF scan.found THEN {"xss"} ELSE {})
    IN  [result |-> [isValid |-> errors = {}, errors |-> errors,
                     sanitized |-> sanitizeString(input)],
         lastIndex |-> scan.lastIndex]

\* a JSON value: a string or an object, the object a set of (key, value) entries
JsonString(text) == [kind |-> "string", text |-> text, entries |-> {}]
JsonObject(entries) == [kind |-> "object", text |-> <<>>, entries |-> entries]
Entry(key, value) == [key |-> key, value |-> value]

\* sanitizeObject(obj, skipSqlSanitization)
RECURSIVE sanitizeObject(_, _)
sanitizeObject(obj, skipSqlSanitization) ==
    IF obj.kind = "string"
    THEN IF skipSqlSanitization THEN obj ELSE JsonString(sanitizeString(obj.text))
    ELSE JsonObject({Entry(sanitizeString(e.key),
                           sanitizeObject(e.value, skipSqlSanitization \/ e.key = <<"sql">>)) :
                        e \in obj.entries})

\* validateWebSocketMessage(data).sanitized
sanitizedMessage(data) == sanitizeObject(data, TRUE)

(***************************************************************************)
(* AuthenticationManager: the registry and the authorization decision      *)
(***************************************************************************)
Roles == {"admin", "user", "readonly"}

\* initializeDefaultUsers: username -> User
DefaultUsers ==
    [u \in {"admin", "user", "readonly"} |->
        CASE u = "admin" -> [id |-> "admin-001", username |-> "admin", role |-> "admin"]
          [] u = "user" -> [id |-> "user-001", username |-> "user", role |-> "user"]
          [] OTHER -> [id |-> "readonly-001", username |-> "readonly", role |-> "readonly"]]

\* a readonly check that forgets to trim the text
isQueryAllowedUntrimmed(user, sql) ==
    LET normalizedSql == ToLowerCase(sql)
    IN  CASE user.role = "admin" -> [allowed |-> TRUE, reason |-> "none"]
          [] user.role = "readonly" ->
                IF ~StartsWith(normalizedSql, "select")
                THEN [allowed |-> FALSE, reason |-> "readonly_select_only"]
                ELSE [allowed |-> TRUE, reason |-> "none"]
          [] user.role = "user" ->
                IF \E kw \in {"drop", "delete", "truncate", "alter"} : Includes(normalizedSql, kw)
                THEN [allowed |-> FALSE, reason |-> "user_no_destructive"]
                ELSE [allowed |-> TRUE, reason |-> "none"]
          [] OTHER -> [allowed |-> FALSE, reason |-> "unknown_role"]

\* isQueryAllowed
isQueryAllowed(user, sql) ==
    LET normalizedSql == Trim(ToLowerCase(sql))
    IN  CASE user.role = "admin" -> [allowed |-> TRUE, reason |-> "none"]
          [] user.role = "readonly" ->
                IF ~StartsWith(normalizedSql, "select")
                THEN [allowed |-> FALSE, reason |-> "readonly_select_only"]
                ELSE [allowed |-> TRUE, reason |-> "none"]
          [] user.role = "user" ->
                IF \E kw \in {"drop", "delete", "truncate", "alter"} : Includes(normalizedSql, kw)
                THEN [allowed |-> FALSE, reason |-> "user_no_destructive"]
                ELSE [allowed |-> TRUE, reason |-> "none"]
          [] OTHER -> [allowed |-> FALSE, reason |-> "unknown_role"]

\* the characters of a token, in runs: text, a number, the '.', an HMAC digest,
\* a base64 encoding
Txt(v) == [k |-> "txt", s |-> v, n |-> 0, d |-> <<>>]
Num(v) == [k |-> "num", s |-> "", n |-> v, d |-> <<>>]
Dot == [k |-> "dot", s |-> ".", n |-> 0, d |-> <<>>]
Digest(secret, data) == [k |-> "hmac", s |-> secret, n |-> 0, d |-> data]
Encoded(data) == [k |-> "b64", s |-> "", n |-> 0, d |-> data]

\* Buffer.from(text).toString('base64')
Base64Encode(text) == <<Encoded(text)>>

\* Buffer.from(token, 'base64').toString('utf8'); what is not base64 decodes to junk
Base64Decode(token) ==
    IF Len(token) = 1 /\ token[1].k = "b64" THEN token[1].d ELSE <<Txt("junk")>>

\* JSON.stringify(payload) of an AuthToken (the permissions follow from the role)
StringifyToken(payload) ==
    <<Txt(payload.userId), Txt(payload.username), Txt(payload.role),
      Num(payload.issuedAt), Num(payload.expiresAt)>>

\* JSON.parse does not throw on tokenData
ParsesAsToken(tokenData) ==
    /\ Len(tokenData) = 5
    /\ \A i \in 1..3 : tokenData[i].k = "txt"
    /\ \A i \in 4..5 : tokenData[i].k = "num"

\* JSON.parse(tokenData)
ParseToken(tokenData) ==
    [userId |-> tokenData[1].s, username |-> tokenData[2].s, role |-> tokenData[3].s,
     issuedAt |-> tokenData[4].n, expiresAt |-> tokenData[5].n]

\* String.prototype.split('.')
RECURSIVE SplitDot(_)
SplitDot(text) ==
    IF \E i \in 1..Len(text) : text[i].k = "dot"
    THEN LET i == CHOOSE j \in 1..Len(text) :
                      text[j].k = "dot" /\ \A m \in 1..(j - 1) : text[m].k # "dot"
         IN  <<SubSeq(text, 1, i - 1)>> \o SplitDot(SubSeq(text, i + 1, Len(text)))
    ELSE <<text>>

\* config.jwtSecret
jwtSecret == "secret"

\* createSignature
createSignature(data) == <<Digest(jwtSecret, data)>>

\* config.sessionTimeout, maxFailedAttempts, lockoutDuration, apiKeys
sessionTimeout == 1
maxFailedAttempts == 2
lockoutDuration == 2
apiKeys == {"key-1"}

\* generateToken: the payload and the token string
TokenPayload(user, t) ==
    [userId |-> user.id, username |-> user.username, role |-> user.role,
     issuedAt |-> t, expiresAt |-> t + sessionTimeout]

generateToken(user, t) ==
    LET tokenData == StringifyToken(TokenPayload(user, t))
    IN  Base64Encode(tokenData \o <<Dot>> \o createSignature(tokenData))

\* decodeToken: null or the payload
NoPayload == [userId |-> "null", username |-> "null", role |-> "null",
              issuedAt |-> 0, expiresAt |-> 0]

decodeToken(token) ==
    LET parts == SplitDot(Base64Decode(token))
        tokenData == parts[1]
        signature == IF Len(parts) >= 2 THEN parts[2] ELSE <<>>
    IN  IF signature # createSignature(tokenData) \/ ~ParsesAsToken(tokenData)
        THEN NoPayload
        ELSE ParseToken(tokenData)

\* validateCredentials
validCredentials ==
    [u \in {"admin", "user", "readonly"} |->
        CASE u = "admin" -> "admin123"
          [] u = "user" -> "user123"
          [] OTHER -> "readonly123"]

validateCredentials(username, password) ==
    username \in DOMAIN validCredentials /\ validCredentials[username] = password

\* AuthResult
NoUser == [id |-> "none", username |-> "none", role |-> "none"]
ServiceUser == [id |-> "service-001", username |-> "service", role |-> "user"]
AuthFailure(op, error) ==
    [op |-> op, success |-> FALSE, error |-> error, user |-> NoUser, token |-> <<>>]
AuthSuccess(op, user, token) ==
    [op |-> op, success |-> TRUE, error |-> "none", user |-> user, token |-> token]
NoAuthResult == AuthFailure("none", "none")

\* the client addresses
Ips == {"10.0.0.1", "10.0.0.2"}

\* RateLimitInfo; lockedUntil is absent until a lockout starts
Undefined == 0 - 1
NoLimit == [present |-> FALSE, attempts |-> 0, lastAttempt |-> 0, lockedUntil |-> Undefined]

\* a JavaScript number used as a condition
Truthy(x) == x # Undefined /\ x # 0

\* isRateLimited
isRateLimited(limits, clientIp, t) ==
    LET limit == limits[clientIp]
    IN  /\ limit.present
        /\ \/ Truthy(limit.lockedUntil) /\ t < limit.lockedUntil
           \/ /\ limit.attempts >= maxFailedAttempts
              /\ t - limit.lastAttempt < lockoutDuration

\* recordFailedAttempt
recordFailedAttempt(limits, clientIp, t) ==
    LET existing == limits[clientIp]
        attempts == existing.attempts + 1
    IN  [limits EXCEPT ![clientIp] =
            [present |-> TRUE, attempts |-> attempts, lastAttempt |-> t,
             lockedUntil |-> IF attempts >= maxFailedAttempts
                             THEN t + lockoutDuration
                             ELSE existing.lockedUntil]]

\* an authenticateUser that counts the attempts it turns away
authenticateUserCounting(limits, sess, username, password, clientIp, t) ==
    IF isRateLimited(limits, clientIp, t)
    THEN [result |-> AuthFailure("authenticateUser", "Too many failed attempts. Please try again later."),
          rateLimits |-> recordFailedAttempt(limits, clientIp, t), sessions |-> sess]
    ELSE IF ~validateCredentials(username, password) \/ username \notin DOMAIN DefaultUsers
    THEN [result |-> AuthFailure("authenticateUser", "Invalid username or password"),
          rateLimits |-> recordFailedAttempt(limits, clientIp, t), sessions |-> sess]
    ELSE LET token == generateToken(DefaultUsers[username], t)
         IN  [result |-> AuthSuccess("authenticateUser", DefaultUsers[username], token),
              rateLimits |-> [limits EXCEPT ![clientIp] = NoLimit],
              sessions |-> sess \cup {token}]

\* authenticateUser: the result and the maps afterwards
authenticateUser(limits, sess, username, password, clientIp, t) ==
    IF isRateLimited(limits, clientIp, t)
    THEN [result |-> AuthFailure("authenticateUser", "Too many failed attempts. Please try again later."),
          rateLimits |-> limits, sessions |-> sess]
    ELSE IF ~validateCredentials(username, password)
    THEN [result |-> AuthFailure("authenticateUser", "Invalid username or password"),
          rateLimits |-> recordFailedAttempt(limits, clientIp, t), sessions |-> sess]
    ELSE IF username \notin DOMAIN DefaultUsers
    THEN [result |-> AuthFailure("authenticateUser", "User not found"),
          rateLimits |-> recordFailedAttempt(limits, clientIp, t), sessions |-> sess]
    ELSE LET token == generateToken(DefaultUsers[username], t)
         IN  [result |-> AuthSuccess("authenticateUser", DefaultUsers[username], token),
              rateLimits |-> [limits EXCEPT ![clientIp] = NoLimit],
              sessions |-> sess \cup {token}]

\* authenticateApiKey
authenticateApiKey(apiKey) ==
    IF apiKey \notin apiKeys
    THEN AuthFailure("authenticateApiKey", "Invalid API key")
    ELSE AuthSuccess("authenticateApiKey", ServiceUser, <<>>)

\* a validation that already rejects the token in its last valid millisecond
validateTokenEarlyExpiry(sess, token, t) ==
    LET decoded == decodeToken(token)
    IN  IF decoded = NoPayload
        THEN [result |-> AuthFailure("validateToken", "Invalid token format"), sessions |-> sess]
        ELSE IF t >= decoded.expiresAt
        THEN [result |-> AuthFailure("validateToken", "Token expired"),
              sessions |-> sess \ {token}]
        ELSE IF decoded.username \notin DOMAIN DefaultUsers
        THEN [result |-> AuthFailure("validateToken", "User not found"), sessions |-> sess]
        ELSE [result |-> AuthSuccess("validateToken", DefaultUsers[decoded.username], token),
              sessions |-> sess]

\* validateToken: the result and the sessions afterwards
validateToken(sess, token, t) ==
    LET decoded == decodeToken(token)
    IN  IF decoded = NoPayload
        THEN [result |-> AuthFailure("validateToken", "Invalid token format"), sessions |-> sess]
        ELSE IF t > decoded.expiresAt
        THEN [result |-> AuthFailure("validateToken", "Token expired"),
              sessions |-> sess \ {token}]
        ELSE IF decoded.username \notin DOMAIN DefaultUsers
        THEN [result |-> AuthFailure("validateToken", "User not found"), sessions |-> sess]
        ELSE [result |-> AuthSuccess("validateToken", DefaultUsers[decoded.username], token),
              sessions |-> sess]

\* the cleanup timer's callback: expired sessions and lapsed lockouts go
cleanupSessions(sess, t) == {token \in sess : ~(t > decodeToken(token).expiresAt)}

cleanupRateLimits(limits, t) ==
    [ip \in DOMAIN limits |->
        IF limits[ip].present /\ Truthy(limits[ip].lockedUntil) /\ t > limits[ip].lockedUntil
        THEN NoLimit
        ELSE limits[ip]]

(***************************************************************************)
(* SecureWebSocketServer: frames, clients, the audit log                   *)
(***************************************************************************)
Conns == {"c1", "c2"}

\* request.socket.remoteAddress: both connections come from one address
ConnIp(c) == "10.0.0.1"

\* config.allowedQueryTypes, config.maxRequestsPerMinute
allowedQueryTypes == {"SELECT", "INSERT", "UPDATE", "DELETE"}
maxRequestsPerMinute == 1

RateWindowMs == 60000
IdleTimeoutMs == 1800000
AuditRetentionMs == 86400000
AuditLogMax == 1000

\* AuthenticatedClient
NoClient == [present |-> FALSE, user |-> NoUser, lastActivity |-> 0, requestCount |-> 0]
NewClient(user, t) == [present |-> TRUE, user |-> user, lastActivity |-> t, requestCount |-> 0]
AnonymousUser == [id |-> "anonymous", username |-> "anonymous", role |-> "readonly"]

\* an inbound frame: the JSON text's shape, its type, its id, its payload and
\* the payload's fields
NoCred == [mode |-> "none", username |-> "", password |-> "", token |-> <<>>, apiKey |-> ""]
Frame(shape, type, payload, sql, cred) ==
    [shape |-> shape, type |-> type, id |-> "undefined", payload |-> payload, sql |-> sql,
     cred |-> cred]

\* the frame with an `id` property
FrameWithId(frame, id) == [frame EXCEPT !.id = id]

NoFrame == Frame("none", "", "undefined", <<>>, NoCred)

\* validateWebSocketMessage: the errors it collects
validateWebSocketMessageErrors(data) ==
    (IF data.type = "" THEN {"type_missing"} ELSE {})
    \cup (IF data.payload = "undefined" THEN {"payload_missing"} ELSE {})
    \cup (IF data.type # "" /\ data.type \notin {"query", "auth", "ping", "result", "error"}
          THEN {"type_invalid"} ELSE {})
    \cup (IF data.type = "query" /\ data.payload = "object" /\ data.sql = <<>>
          THEN {"sql_missing"} ELSE {})
    \cup (IF data.type = "auth" /\ data.payload = "object" /\ data.cred.mode = "none"
          THEN {"credentials_missing"} ELSE {})

\* a validation that collects the errors and then accepts every object
validateWebSocketMessageLax(data) ==
    [isValid |-> data.shape = "object", errors |-> validateWebSocketMessageErrors(data)]

\* validateWebSocketMessage(parsed).isValid
validateWebSocketMessage(data) ==
    IF data.shape # "object"
    THEN [isValid |-> FALSE, errors |-> {"not_an_object"}]
    ELSE [isValid |-> validateWebSocketMessageErrors(data) = {},
          errors |-> validateWebSocketMessageErrors(data)]

\* checkRateLimit: its verdict and the client table afterwards
checkRateLimit(clients, clientId, t) ==
    LET client == clients[clientId]
        requestCount == IF client.lastActivity < t - RateWindowMs THEN 0 ELSE client.requestCount
    IN  IF ~client.present
        THEN [ok |-> TRUE, clients |-> clients]
        ELSE [ok |-> requestCount < maxRequestsPerMinute,
              clients |-> [clients EXCEPT ![clientId].requestCount = requestCount]]

\* AuditLogEntry
AuditEntry(t, clientId, userId, action, success) ==
    [timestamp |-> t, clientId |-> clientId, userId |-> userId, action |-> action,
     success |-> success]

\* an audit log that keeps the successes only
logAuditSuccessOnly(log, enabled, entry) ==
    IF ~enabled \/ ~entry.success
    THEN log
    ELSE LET pushed == Append(log, entry)
         IN  IF Len(pushed) > AuditLogMax THEN Tail(pushed) ELSE pushed

\* an audit log that, once full, turns the new entry away
logAuditKeepOldest(log, enabled, entry) ==
    IF ~enabled
    THEN log
    ELSE LET pushed == Append(log, entry)
         IN  IF Len(pushed) > AuditLogMax THEN SubSeq(pushed, 1, AuditLogMax) ELSE pushed

\* logAudit
logAudit(log, enabled, entry) ==
    IF ~enabled
    THEN log
    ELSE LET pushed == Append(log, entry)
         IN  IF Len(pushed) > AuditLogMax THEN Tail(pushed) ELSE pushed

RECURSIVE logAudits(_, _, _)
logAudits(log, enabled, entries) ==
    IF entries = <<>> THEN log
    ELSE logAudits(logAudit(log, enabled, Head(entries)), enabled, Tail(entries))

\* an envelope written to a socket: its type, its payload's code or kind, the
\* frame it answers (the connection's seq-th, of type re), its payload's
\* echo field, which no envelope of this server carries, and its id, which
\* JSON.stringify leaves out when it is undefined
Envelope(c, seq, re, type, code) ==
    [conn |-> c, seq |-> seq, re |-> re, type |-> type, code |-> code, echo |-> "absent",
     id |-> "undefined"]

\* the id argument of the handlers' sendError and sendToClient calls: each
\* passes the frame's id on, except handleMessage's catch, which passes none
withId(envelopes, id) ==
    [i \in 1..Len(envelopes) |->
        IF envelopes[i].code = "PARSE_ERROR" THEN envelopes[i]
        ELSE [envelopes[i] EXCEPT !.id = id]]

\* sendError
sendError(c, seq, re, code) == Envelope(c, seq, re, "error", code)

\* a handleMessage invocation suspended at an await
Handler(c, seq, pc, sql, client, result) ==
    [conn |-> c, seq |-> seq, pc |-> pc, sql |-> sql, client |-> client, authResult |-> result,
     id |-> "undefined"]

\* what the synchronous run of a handler does
Effect(envelopes, audits, clients, limits, sess, suspended, called) ==
    [envelopes |-> envelopes, audits |-> audits, clients |-> clients, rateLimits |-> limits,
     sessions |-> sess, suspended |-> suspended, called |-> called]

\* a failure branch that also forgets who the connection was
finishAuthDropIdentity(c, seq, clients, result, t) ==
    IF result.success
    THEN [clients |-> [clients EXCEPT ![c] = NewClient(result.user, t)],
          envelopes |-> <<Envelope(c, seq, "auth", "result", "authenticated")>>,
          audits |-> <<AuditEntry(t, c, result.user.id, "authentication", TRUE)>>]
    ELSE [clients |-> [clients EXCEPT ![c] = NoClient],
          envelopes |-> <<sendError(c, seq, "auth", "AUTH_ERROR")>>,
          audits |-> <<AuditEntry(t, c, "none", "authentication", FALSE)>>]

\* handleAuthMessage, from the AuthResult on
finishAuth(c, seq, clients, result, t) ==
    IF result.success
    THEN [clients |-> [clients EXCEPT ![c] = NewClient(result.user, t)],
          envelopes |-> <<Envelope(c, seq, "auth", "result", "authenticated")>>,
          audits |-> <<AuditEntry(t, c, result.user.id, "authentication", TRUE)>>]
    ELSE [clients |-> clients,
          envelopes |-> <<sendError(c, seq, "auth", "AUTH_ERROR")>>,
          audits |-> <<AuditEntry(t, c, "none", "authentication", FALSE)>>]

\* handleAuthMessage, up to its await or its end
handleAuthMessage(c, seq, message, clients, t) ==
    CASE message.payload = "null" ->
            \* message.payload.token throws; the catch answers
            Effect(<<sendError(c, seq, "auth", "AUTH_ERROR")>>, <<>>, clients, rateLimits, sessions, {}, 0)
      [] message.payload # "null" /\ message.cred.mode = "token" ->
            LET out == validateToken(sessions, message.cred.token, t)
                fin == finishAuth(c, seq, clients, out.result, t)
            IN  Effect(fin.envelopes, fin.audits, fin.clients, rateLimits, out.sessions, {}, 0)
      [] message.payload # "null" /\ message.cred.mode = "apiKey" ->
            LET fin == finishAuth(c, seq, clients, authenticateApiKey(message.cred.apiKey), t)
            IN  Effect(fin.envelopes, fin.audits, fin.clients, rateLimits, sessions, {}, 0)
      [] message.payload # "null" /\ message.cred.mode = "password" ->
            LET out == authenticateUser(rateLimits, sessions, message.cred.username,
                                        message.cred.password, ConnIp(c), t)
            IN  Effect(<<>>, <<>>, clients, out.rateLimits, out.sessions,
                       {Handler(c, seq, "await_auth", <<>>, NoClient, out.result)}, 0)
      [] OTHER ->
            Effect(<<sendError(c, seq, "auth", "AUTH_ERROR")>>, <<>>, clients, rateLimits, sessions, {}, 0)

\* handlePingMessage
handlePingMessage(c, seq) == Envelope(c, seq, "ping", "result", "pong")

\* a check that stops exactly the statements validation accepts
sqlRejectedInverted(sql) == validateSQL(sql, allowedQueryTypes).isValid

\* handleQueryMessage: `if (!sqlValidation.isValid)`
sqlRejected(sql) == ~validateSQL(sql, allowedQueryTypes).isValid

\* handleQueryMessage, up to `await this.dbClient.query(sql, params)` or its end
handleQueryMessage(c, seq, message, client, clients, t) ==
    LET sql == IF message.payload = "object" THEN message.sql ELSE <<>>
        userId == IF client.present THEN client.user.id ELSE "none"
    IN  CASE message.payload = "null" ->
                \* message.payload.sql throws; the catch answers DATABASE_ERROR and
                \* throws again building the audit entry; handleMessage's catch answers
                Effect(<<sendError(c, seq, "query", "DATABASE_ERROR"),
                         sendError(c, seq, "query", "PARSE_ERROR")>>,
                       <<>>, clients, rateLimits, sessions, {}, 0)
          [] message.payload # "null" /\ sqlRejected(sql) ->
                Effect(<<sendError(c, seq, "query", "SQL_VALIDATION_ERROR")>>,
                       <<AuditEntry(t, c, userId, "query_validation_failed", FALSE)>>,
                       clients, rateLimits, sessions, {}, 0)
          [] /\ message.payload # "null" /\ ~sqlRejected(sql)
             /\ client.present /\ ~isQueryAllowed(client.user, sql).allowed ->
                Effect(<<sendError(c, seq, "query", "PERMISSION_DENIED")>>,
                       <<AuditEntry(t, c, userId, "query_permission_denied", FALSE)>>,
                       clients, rateLimits, sessions, {}, 0)
          [] OTHER ->
                Effect(<<>>, <<>>, clients, rateLimits, sessions,
                       {Handler(c, seq, "await_query", sql, client, NoAuthResult)}, 1)

\* a check that lets through exactly the connections it should stop
authRequiredInverted(client) == gwConfig.requireAuth /\ client.present

\* handleMessage: `if (this.config.requireAuth && !client)`
authRequired(client) == gwConfig.requireAuth /\ ~client.present

\* handleMessage, up to its first await or its end
handleMessage(c, seq, data, t) ==
    LET answer(code) ==
            Effect(<<sendError(c, seq, data.type, code)>>, <<>>, authenticatedClients, rateLimits,
                   sessions, {}, 0)
        limit == checkRateLimit(authenticatedClients, c, t)
        client == limit.clients[c]
        active == IF client.present
                  THEN [limit.clients EXCEPT ![c].lastActivity = t,
                                             ![c].requestCount = @ + 1]
                  ELSE limit.clients
    IN  CASE data.shape = "garbage" -> answer("PARSE_ERROR")
          [] data.shape = "null" -> answer("PARSE_ERROR")
          [] data.shape \notin {"garbage", "null"} /\ ~validateWebSocketMessage(data).isValid ->
                answer("VALIDATION_ERROR")
          [] OTHER ->
                IF ~limit.ok
                THEN Effect(<<sendError(c, seq, data.type, "RATE_LIMIT")>>, <<>>, limit.clients,
                            rateLimits, sessions, {}, 0)
                ELSE IF data.type = "auth"
                THEN handleAuthMessage(c, seq, data, limit.clients, t)
                ELSE IF authRequired(client)
                THEN Effect(<<sendError(c, seq, data.type, "AUTH_REQUIRED")>>, <<>>, limit.clients,
                            rateLimits, sessions, {}, 0)
                ELSE IF data.type = "ping"
                THEN Effect(<<handlePingMessage(c, seq)>>, <<>>, active, rateLimits,
                            sessions, {}, 0)
                ELSE IF data.type = "query"
                THEN handleQueryMessage(c, seq, data, active[c], active, t)
                ELSE Effect(<<sendError(c, seq, data.type, "UNSUPPORTED_TYPE")>>, <<>>, active,
                            rateLimits, sessions, {}, 0)

(***************************************************************************)
(* PostgreSQLClient                                                        *)
(***************************************************************************)
MaxNow == 2             \* the clock stops here
MaxCalls == 3           \* query() calls on a connected client in one behaviour
cacheMaxSize == 2       \* config.cacheMaxSize
cacheTtlMs == 1         \* config.cacheTtlMs
DefaultCacheMaxSize == 100
DefaultCacheTtlMs == 300000

DbCallers == {"a", "b"}

NoParams == [defined |-> FALSE, items |-> <<>>]

\* the (sql, params) arguments the callers pass to query()
DbInputs ==
    {[sql |-> <<"select">>, params |-> NoParams],
     [sql |-> <<" ", "SELECT">>, params |-> NoParams],
     [sql |-> <<"select">>, params |-> [defined |-> TRUE, items |-> <<>>]],
     [sql |-> <<"select">>, params |-> [defined |-> TRUE, items |-> <<"1">>]],
     [sql |-> <<"insert", " ", "select">>, params |-> NoParams]}

\* params ? JSON.stringify(params) : ''
ParamString(params) ==
    IF params.defined THEN <<"[">> \o params.items \o <<"]">> ELSE <<>>

\* generateCacheKey
generateCacheKey(sql, params) ==
    ToLowerCase(Trim(sql)) \o <<":">> \o ParamString(params)

\* a cacheability test that looks for the keyword anywhere in the statement
isSelectQueryAnywhere(sql) == Includes(ToLowerCase(Trim(sql)), "select")

\* isSelectQuery
isSelectQuery(sql) == StartsWith(ToLowerCase(Trim(sql)), "select")

\* Map.prototype.has / get / delete / set on a Map kept in insertion order
MapHas(m, k) == \E i \in 1..Len(m) : m[i].key = k
MapGet(m, k) == m[CHOOSE i \in 1..Len(m) : m[i].key = k]
MapDelete(m, k) == SelectSeq(m, LAMBDA e : e.key # k)
MapSet(m, k, e) ==
    IF MapHas(m, k)
    THEN [i \in 1..Len(m) |-> IF m[i].key = k THEN e ELSE m[i]]
    ELSE Append(m, e)

\* getCachedResult: the entry is there and has not expired
CacheFresh(cache, cacheKey, t) ==
    /\ MapHas(cache, cacheKey)
    /\ ~(t - MapGet(cache, cacheKey).timestamp > MapGet(cache, cacheKey).ttl)

\* getCachedResult: the Map after the lookup (an expired entry is deleted)
CacheAfterLookup(cache, cacheKey, t) ==
    IF MapHas(cache, cacheKey) /\ ~CacheFresh(cache, cacheKey, t)
    THEN MapDelete(cache, cacheKey)
    ELSE cache

\* this.config.cacheMaxSize || 100
EffectiveCacheMaxSize == IF cacheMaxSize = 0 THEN DefaultCacheMaxSize ELSE cacheMaxSize
\* this.config.cacheTtlMs || 300000
EffectiveCacheTtlMs == IF cacheTtlMs = 0 THEN DefaultCacheTtlMs ELSE cacheTtlMs

\* an eviction that drops the most recently inserted key instead of the earliest
setCachedResultEvictNewest(cache, cacheKey, result, t) ==
    LET kept == IF Len(cache) >= EffectiveCacheMaxSize /\ cache # <<>>
                THEN SubSeq(cache, 1, Len(cache) - 1)
                ELSE cache
    IN  MapSet(kept, cacheKey,
               [key |-> cacheKey, result |-> result, timestamp |-> t, ttl |-> EffectiveCacheTtlMs])

\* setCachedResult
setCachedResult(cache, cacheKey, result, t) ==
    LET kept == IF Len(cache) >= EffectiveCacheMaxSize /\ cache # <<>>
                THEN MapDelete(cache, Head(cache).key)
                ELSE cache
    IN  MapSet(kept, cacheKey,
               [key |-> cacheKey, result |-> result, timestamp |-> t, ttl |-> EffectiveCacheTtlMs])

\* updateCacheHitRate: the rate is hits / attempts * 100, kept as the two numbers
updateCacheHitRate(m) ==
    [m EXCEPT !.cacheHitRate = [hits |-> m.cacheHits, attempts |-> m.cacheHits + m.cacheMisses]]

\* updatePerformanceMetrics (the durations are not modelled)
updatePerformanceMetrics(m) ==
    updateCacheHitRate([m EXCEPT !.queryCount = @ + 1])

IdleCall == [pc |-> "idle", sql |-> <<>>, params |-> NoParams]

\* what a query() call gave back to its caller
Returned(c, sql, params, outcome, rows) ==
    [caller |-> c, sql |-> sql, params |-> params, outcome |-> outcome, rows |-> rows]

NothingReturned == Returned("none", <<>>, NoParams, "none", 0)

NoDecision == [allowed |-> FALSE, reason |-> "none"]
NoValidation == [isValid |-> FALSE, isSafe |-> FALSE, errors |-> {}, warnings |-> {},
                 queryType |-> "UNKNOWN"]
NoStringResult == [isValid |-> FALSE, errors |-> {}, sanitized |-> <<>>]
NoMessage == JsonString(<<>>)
NoStructure == [isValid |-> FALSE, errors |-> {}]
NoStats == [connectedClients |-> 0, auditLogEntries |-> 0,
            clientsByRole |-> [admin |-> 0, user |-> 0, readonly |-> 0]]

NoFnOut == [op |-> "none", decision |-> NoDecision, validation |-> NoValidation,
            string |-> NoStringResult, structure |-> NoStructure, message |-> NoMessage,
            entries |-> <<>>, stats |-> NoStats]
NoFnIn == [user |-> NoUser, sql |-> <<>>, allowedOperations |-> {}, input |-> <<>>,
           frame |-> NoFrame, data |-> NoMessage, limit |-> 0]

NoLastIndex == [p \in {"script", "javascript", "handler"} |-> 0]

InitFnIdle == fnIn = NoFnIn /\ fnOut = NoFnOut /\ lastIndex = NoLastIndex

\* the constructor of AuthenticationManager
InitAuth ==
    /\ rateLimits = [ip \in Ips |-> NoLimit]
    /\ sessions = {}
    /\ issued = {}
    /\ authResult = NoAuthResult

\* no gateway
InitGwIdle ==
    /\ gwConfig = [requireAuth |-> TRUE, enableAuditLog |-> FALSE]
    /\ sockets = [c \in Conns |-> "none"]
    /\ received = [c \in Conns |-> 0]
    /\ lastFrameAt = [c \in Conns |-> 0]
    /\ authenticatedClients = [c \in Conns |-> NoClient]
    /\ handlers = {}
    /\ auditLog = <<>>
    /\ sent = <<>>
    /\ effects = <<>>
    /\ executorCalls = 0

InitDb ==
    /\ pool = FALSE
    /\ dbLifecycle = "idle"
    /\ poolLeased = 0
    /\ queryCache = <<>>
    /\ performanceMetrics =
           [queryCount |-> 0, cacheHits |-> 0, cacheMisses |-> 0,
            cacheHitRate |-> [hits |-> 0, attempts |-> 0]]
    /\ dbCalls = [c \in DbCallers |-> IdleCall]
    /\ dbReturned = NothingReturned
    /\ driverCalls = 0
    /\ dbData = 0
    /\ dbBegun = 0

\* connect() is called on a client without a pool: the pool is created, then the test
\* connection is awaited
DbConnectBegin ==
    /\ dbLifecycle = "idle"
    /\ ~pool
    /\ pool' = TRUE
    /\ dbLifecycle' = "connecting"
    /\ UNCHANGED <<now, nonDbVars, poolLeased, queryCache, performanceMetrics, dbCalls,
                   dbReturned, driverCalls, dbData, dbBegun, dbConfig>>

\* connect(), from the test connection's verdict to its end: a failure drops the pool
DbConnectSettle(ok) ==
    /\ dbLifecycle = "connecting"
    /\ pool' = ok
    /\ dbLifecycle' = "idle"
    /\ UNCHANGED <<now, nonDbVars, poolLeased, queryCache, performanceMetrics, dbCalls,
                   dbReturned, driverCalls, dbData, dbBegun, dbConfig>>

\* disconnect() is called on a client with a pool: `await this.pool.end()`
DbDisconnectBegin ==
    /\ dbLifecycle = "idle"
    /\ pool
    /\ dbLifecycle' = "ending"
    /\ UNCHANGED <<now, nonDbVars, pool, poolLeased, queryCache, performanceMetrics, dbCalls,
                   dbReturned, driverCalls, dbData, dbBegun, dbConfig>>

\* disconnect(), after pool.end() has settled
DbDisconnectEnd ==
    /\ dbLifecycle = "ending"
    /\ pool' = FALSE
    /\ dbLifecycle' = "idle"
    /\ UNCHANGED <<now, nonDbVars, poolLeased, queryCache, performanceMetrics, dbCalls,
                   dbReturned, driverCalls, dbData, dbBegun, dbConfig>>

\* query(), its synchronous part: up to a cache hit or to `await this.pool.connect()`
queryLookup(c, sql, params) ==
    LET cacheKey == generateCacheKey(sql, params)
        suspended == [pc |-> "await_connect", sql |-> sql, params |-> params]
    IN  IF dbConfig.enableCache /\ isSelectQuery(sql)
        THEN IF CacheFresh(queryCache, cacheKey, now)
             THEN /\ performanceMetrics' =
                        updateCacheHitRate([performanceMetrics EXCEPT !.cacheHits = @ + 1])
                  /\ queryCache' = queryCache
                  /\ dbCalls' = dbCalls
                  /\ dbReturned' = Returned(c, sql, params, "hit",
                                            MapGet(queryCache, cacheKey).result)
             ELSE /\ performanceMetrics' = [performanceMetrics EXCEPT !.cacheMisses = @ + 1]
                  /\ queryCache' = CacheAfterLookup(queryCache, cacheKey, now)
                  /\ dbCalls' = [dbCalls EXCEPT ![c] = suspended]
                  /\ dbReturned' = dbReturned
        ELSE /\ performanceMetrics' = performanceMetrics
             /\ queryCache' = queryCache
             /\ dbCalls' = [dbCalls EXCEPT ![c] = suspended]
             /\ dbReturned' = dbReturned

\* a query() that does not look at this.pool before it proceeds
queryCallUnchecked(c, sql, params) ==
    /\ dbCalls[c].pc = "idle"
    /\ dbBegun < MaxCalls
    /\ dbBegun' = dbBegun + 1
    /\ queryLookup(c, sql, params)
    /\ UNCHANGED <<pool, dbLifecycle, poolLeased, driverCalls, dbData, dbConfig>>

\* query() runs up to its first await or to its end: what it does to the client
queryCall(c, sql, params) ==
    /\ dbCalls[c].pc = "idle"
    /\ IF ~pool
       THEN /\ dbReturned' = Returned(c, sql, params, "not_connected", 0)
            /\ UNCHANGED <<dbCalls, queryCache, performanceMetrics, dbBegun>>
       ELSE /\ dbBegun < MaxCalls
            /\ dbBegun' = dbBegun + 1
            /\ queryLookup(c, sql, params)
    /\ UNCHANGED <<pool, dbLifecycle, poolLeased, driverCalls, dbData, dbConfig>>

\* query() is called
DbQueryBegin(c, sql, params) ==
    /\ queryCall(c, sql, params)
    /\ UNCHANGED <<now, nonDbVars>>

\* `await this.pool.connect()` settles; on success client.query(sql, params) is called
DbPoolConnect(c, ok) ==
    /\ dbCalls[c].pc = "await_connect"
    /\ IF ok
       THEN /\ driverCalls' = driverCalls + 1
            /\ poolLeased' = poolLeased + 1
            /\ dbCalls' = [dbCalls EXCEPT ![c].pc = "await_query"]
            /\ dbReturned' = dbReturned
       ELSE /\ driverCalls' = driverCalls
            /\ poolLeased' = poolLeased
            /\ dbCalls' = [dbCalls EXCEPT ![c] = IdleCall]
            /\ dbReturned' = Returned(c, dbCalls[c].sql, dbCalls[c].params, "failed", 0)
    /\ UNCHANGED <<now, nonDbVars, pool, dbLifecycle, queryCache, performanceMetrics, dbData,
                   dbBegun, dbConfig>>

\* a `finally` that gives the pooled connection back only after a success
releaseClientOnSuccess(leased, ok) == IF ok THEN leased - 1 ELSE leased

\* query(), its `finally`: the pooled connection goes back whether the statement succeeded
\* (ok) or threw
releaseClient(leased, ok) == leased - 1

\* `await client.query(sql, params)` settles; the rest of query()
DbDriverReturn(c, ok) ==
    /\ dbCalls[c].pc = "await_query"
    /\ LET call == dbCalls[c]
           reads == StartsWith(ToLowerCase(Trim(call.sql)), "select")
           rows == IF reads THEN dbData ELSE 0
       IN  IF ok
           THEN /\ dbData' = IF reads THEN dbData ELSE dbData + 1
                /\ queryCache' =
                       IF dbConfig.enableCache /\ isSelectQuery(call.sql)
                       THEN setCachedResult(queryCache, generateCacheKey(call.sql, call.params),
                                            rows, now)
                       ELSE queryCache
                /\ performanceMetrics' = updatePerformanceMetrics(performanceMetrics)
                /\ dbReturned' = Returned(c, call.sql, call.params, "executed", rows)
           ELSE /\ dbReturned' = Returned(c, call.sql, call.params, "failed", 0)
                /\ UNCHANGED <<dbData, queryCache, performanceMetrics>>
    /\ poolLeased' = releaseClient(poolLeased, ok)
    /\ dbCalls' = [dbCalls EXCEPT ![c] = IdleCall]
    /\ UNCHANGED <<now, nonDbVars, pool, dbLifecycle, driverCalls, dbBegun, dbConfig>>

\* clearCache
DbClearCache ==
    /\ queryCache # <<>>
    /\ queryCache' = <<>>
    /\ UNCHANGED <<now, nonDbVars, pool, dbLifecycle, poolLeased, performanceMetrics, dbCalls,
                   dbReturned, driverCalls, dbData, dbBegun, dbConfig>>

\* time passes
DbTick ==
    /\ now < MaxNow
    /\ now' = now + 1
    /\ UNCHANGED <<nonDbVars, dbVars>>

\* the client as constructed, caching on or off
DbInit ==
    /\ now = 0
    /\ InitFnIdle
    /\ InitAuth
    /\ InitGwIdle
    /\ InitDb
    /\ dbConfig \in {[enableCache |-> e] : e \in BOOLEAN}

\* query() is called once connect() has settled, as the repository's callers do (they
\* await connect() first); LifeNext has the calls that overlap connect() and disconnect()
DbNext ==
    \/ DbConnectBegin
    \/ \E ok \in BOOLEAN : DbConnectSettle(ok)
    \/ /\ dbLifecycle = "idle"
       /\ \E c \in DbCallers, in \in DbInputs : DbQueryBegin(c, in.sql, in.params)
    \/ \E c \in DbCallers, ok \in BOOLEAN : DbPoolConnect(c, ok)
    \/ \E c \in DbCallers, ok \in BOOLEAN : DbDriverReturn(c, ok)
    \/ DbClearCache
    \/ DbTick

SpecDb == DbInit /\ [][DbNext]_vars

\* the client through connect(), disconnect() and reconnection, with one caller of query()
LifeNext ==
    \/ DbConnectBegin
    \/ \E ok \in BOOLEAN : DbConnectSettle(ok)
    \/ DbDisconnectBegin
    \/ DbDisconnectEnd
    \/ \E in \in DbInputs : DbQueryBegin("a", in.sql, in.params)
    \/ \E ok \in BOOLEAN : DbPoolConnect("a", ok)
    \/ \E ok \in BOOLEAN : DbDriverReturn("a", ok)

SpecLife == DbInit /\ [][LifeNext]_vars

\* statements that differ in letter case inside and outside a string literal
CacheInputs ==
    {[sql |-> <<"select", " ", "'A'">>, params |-> NoParams],
     [sql |-> <<"select", " ", "'a'">>, params |-> NoParams],
     [sql |-> <<" ", "SELECT", " ", "'a'">>, params |-> NoParams],
     [sql |-> <<"select", " ", "'a'">>, params |-> [defined |-> TRUE, items |-> <<>>]],
     [sql |-> <<"select", " ", "'a'">>, params |-> [defined |-> TRUE, items |-> <<"1">>]]}

\* one caller of query() on a connected client, the statements of CacheInputs
CacheNext ==
    \/ DbConnectBegin
    \/ \E ok \in BOOLEAN : DbConnectSettle(ok)
    \/ /\ dbLifecycle = "idle"
       /\ \E in \in CacheInputs : DbQueryBegin("a", in.sql, in.params)
    \/ \E ok \in BOOLEAN : DbPoolConnect("a", ok)
    \/ \E ok \in BOOLEAN : DbDriverReturn("a", ok)
    \/ DbClearCache
    \/ DbTick

SpecCache == DbInit /\ [][CacheNext]_vars

(***************************************************************************)
(* The pure functions, applied to enumerated arguments                     *)
(***************************************************************************)
AllowedOperationsChoices == {{"SELECT"}, {"SELECT", "INSERT", "UPDATE", "DELETE"}}

FnInputs ==
    {[NoFnIn EXCEPT !.user = DefaultUsers[u], !.sql = sql, !.allowedOperations = ops] :
        u \in DOMAIN DefaultUsers, sql \in SqlTexts, ops \in AllowedOperationsChoices}

FnInit ==
    /\ now = 0
    /\ fnIn \in FnInputs
    /\ fnOut = NoFnOut
    /\ lastIndex = NoLastIndex
    /\ InitAuth
    /\ InitGwIdle
    /\ InitDb
    /\ dbConfig = [enableCache |-> FALSE]

\* authManager.isQueryAllowed(user, sql)
FnIsQueryAllowed ==
    /\ fnOut.op = "none"
    /\ fnOut' = [NoFnOut EXCEPT !.op = "isQueryAllowed",
                                !.decision = isQueryAllowed(fnIn.user, fnIn.sql)]
    /\ UNCHANGED <<now, fnIn, lastIndex, dbVars, authVars, gwVars>>

\* InputValidator.validateSQL(sql, allowedOperations)
FnValidateSQL ==
    /\ fnOut.op = "none"
    /\ fnOut' = [NoFnOut EXCEPT !.op = "validateSQL",
                                !.validation = validateSQL(fnIn.sql, fnIn.allowedOperations)]
    /\ UNCHANGED <<now, fnIn, lastIndex, dbVars, authVars, gwVars>>

FnNext == FnIsQueryAllowed \/ FnValidateSQL

SpecFn == FnInit /\ [][FnNext]_vars

(***************************************************************************)
(* AuthenticationManager with a clock                                      *)
(***************************************************************************)
MaxAttempts == 3        \* failures recorded against one address in one behaviour
MaxTokens == 2          \* tokens issued in one behaviour

Credentials ==
    {[username |-> "admin", password |-> "admin123"],
     [username |-> "readonly", password |-> "readonly123"],
     [username |-> "admin", password |-> "letmein"],
     [username |-> "nobody", password |-> "nobody123"]}

\* a token whose expiry was pushed back and whose signature was kept
TamperExpiry(token) ==
    LET parts == SplitDot(Base64Decode(token))
        payload == ParseToken(parts[1])
    IN  Base64Encode(StringifyToken([payload EXCEPT !.expiresAt = @ + 1])
                     \o <<Dot>> \o parts[2])

\* what a client can present as a token
PresentableTokens ==
    {it.token : it \in issued} \cup {TamperExpiry(it.token) : it \in issued}
        \cup {<<Txt("junk")>>}

\* the client keeps the token of a success response and notes when it got it
Issue(result) ==
    IF result.success /\ result.op = "authenticateUser"
    THEN issued \cup {[token |-> result.token, user |-> result.user, issuedAt |-> now]}
    ELSE issued

AuthInit ==
    /\ now = 0
    /\ InitFnIdle
    /\ InitAuth
    /\ InitGwIdle
    /\ InitDb
    /\ dbConfig = [enableCache |-> FALSE]

AuthAuthenticateUser(cred, clientIp) ==
    LET out == authenticateUser(rateLimits, sessions, cred.username, cred.password, clientIp, now)
    IN  /\ rateLimits[clientIp].attempts < MaxAttempts
        /\ out.result.success => Cardinality(issued) < MaxTokens
        /\ rateLimits' = out.rateLimits
        /\ sessions' = out.sessions
        /\ authResult' = out.result
        /\ issued' = Issue(out.result)
        /\ UNCHANGED <<now, nonAuthVars>>

AuthValidateToken(token) ==
    LET out == validateToken(sessions, token, now)
    IN  /\ sessions' = out.sessions
        /\ authResult' = out.result
        /\ UNCHANGED <<now, nonAuthVars, rateLimits, issued>>

AuthAuthenticateApiKey(apiKey) ==
    /\ authResult' = authenticateApiKey(apiKey)
    /\ UNCHANGED <<now, nonAuthVars, rateLimits, sessions, issued>>

\* startCleanupTimer: the interval fires
AuthCleanup ==
    /\ sessions' = cleanupSessions(sessions, now)
    /\ rateLimits' = cleanupRateLimits(rateLimits, now)
    /\ UNCHANGED <<now, nonAuthVars, issued, authResult>>

AuthTick ==
    /\ now < MaxNow
    /\ now' = now + 1
    /\ UNCHANGED <<nonAuthVars, authVars>>

AuthNext ==
    \/ \E cred \in Credentials, clientIp \in Ips : AuthAuthenticateUser(cred, clientIp)
    \/ \E token \in PresentableTokens : AuthValidateToken(token)
    \/ \E apiKey \in {"key-1", "key-x"} : AuthAuthenticateApiKey(apiKey)
    \/ AuthCleanup
    \/ AuthTick

SpecAuth == AuthInit /\ [][AuthNext]_vars

(***************************************************************************)
(* SecureWebSocketServer: connections, frames and suspended handlers       *)
(***************************************************************************)
MaxFrames == 3          \* frames received in one behaviour
GwMaxIdleNow == 1800001 \* the clock of the idle sweep stops here
GwMaxNow == 60001       \* the gateway's clock stops here

GwSqls == {<<"select">>, <<"insert">>, <<"delete">>, <<"drop">>, <<"x">>}

PasswordCred(username, password) ==
    [NoCred EXCEPT !.mode = "password", !.username = username, !.password = password]
TokenCred(token) == [NoCred EXCEPT !.mode = "token", !.token = token]
ApiKeyCred(apiKey) == [NoCred EXCEPT !.mode = "apiKey", !.apiKey = apiKey]

\* the frames a client sends
GwFrames ==
    {Frame(shape, "", "undefined", <<>>, NoCred) : shape \in {"garbage", "null", "scalar"}}
    \cup {Frame("object", type, "object", <<>>, NoCred) : type \in {"ping", "result", "bogus", ""}}
    \cup {Frame("object", "query", "object", sql, NoCred) : sql \in GwSqls}
    \cup {Frame("object", type, payload, <<>>, NoCred) :
            type \in {"query", "auth"}, payload \in {"object", "null", "falsy", "undefined"}}
    \cup {Frame("object", "auth", "object", <<>>, cred) :
            cred \in {PasswordCred("admin", "admin123"), PasswordCred("admin", "letmein"),
                      ApiKeyCred("key-1"), TokenCred(<<Txt("junk")>>)}
                     \cup {TokenCred(it.token) : it \in issued}}

GwInit ==
    /\ now = 0
    /\ InitFnIdle
    /\ InitAuth
    /\ InitDb
    /\ dbConfig = [enableCache |-> FALSE]
    /\ gwConfig \in {[requireAuth |-> r, enableAuditLog |-> a] : r \in BOOLEAN, a \in BOOLEAN}
    /\ sockets = [c \in Conns |-> "none"]
    /\ received = [c \in Conns |-> 0]
    /\ lastFrameAt = [c \in Conns |-> 0]
    /\ authenticatedClients = [c \in Conns |-> NoClient]
    /\ handlers = {}
    /\ auditLog = <<>>
    /\ sent = <<>>
    /\ effects = <<>>
    /\ executorCalls = 0

\* sendToClient: only an open socket is written to
sendToClient(c, envelopes) == IF sockets[c] = "open" THEN envelopes ELSE <<>>

\* how many of n entries handed to logAudit are appended
logged(n) == IF gwConfig.enableAuditLog THEN n ELSE 0

\* the handlers write their answer to the socket and then call logAudit
sendThenAudit(envelopes, n) ==
    [i \in 1..Len(envelopes) |-> "send"] \o [i \in 1..logged(n) |-> "audit"]

\* verifyClient calls logAudit before handleConnection writes the welcome
auditThenSend(n, envelopes) ==
    [i \in 1..logged(n) |-> "audit"] \o [i \in 1..Len(envelopes) |-> "send"]

\* a connection handler that writes nothing to the new socket
handleConnectionSilent(c) == <<>>

\* handleConnection's last statement: the welcome, which carries the clientId
handleConnection(c) == <<[Envelope(c, 0, "", "result", "welcome") EXCEPT !.id = "welcome"]>>

\* verifyClient and handleConnection
GwConnect(c) ==
    /\ sockets[c] = "none"
    /\ c = "c2" => sockets["c1"] # "none"     \* "c2" names the later connection
    /\ sockets' = [sockets EXCEPT ![c] = "open"]
    /\ auditLog' = logAudit(auditLog, gwConfig.enableAuditLog,
                            AuditEntry(now, ConnIp(c), "none", "connection_attempt", TRUE))
    /\ authenticatedClients' =
           IF ~gwConfig.requireAuth
           THEN [authenticatedClients EXCEPT ![c] = NewClient(AnonymousUser, now)]
           ELSE authenticatedClients
    /\ sent' = handleConnection(c)
    /\ effects' = auditThenSend(1, handleConnection(c))
    /\ lastFrameAt' = [lastFrameAt EXCEPT ![c] = now]
    /\ UNCHANGED <<now, fnVars, dbVars, authVars, gwConfig, received, handlers, executorCalls>>

\* ws.on("close")
GwClose(c) ==
    /\ sockets[c] \in {"open", "closing"}
    /\ sockets' = [sockets EXCEPT ![c] = "closed"]
    /\ authenticatedClients' = [authenticatedClients EXCEPT ![c] = NoClient]
    /\ auditLog' = logAudit(auditLog, gwConfig.enableAuditLog,
                            AuditEntry(now, c, "none", "disconnection", TRUE))
    /\ sent' = <<>>
    /\ effects' = sendThenAudit(<<>>, 1)
    /\ UNCHANGED <<now, fnVars, dbVars, authVars, gwConfig, received, lastFrameAt, handlers,
                   executorCalls>>

\* ws.on("message"): what handleMessage, run up to its first await or to its end,
\* does to the gateway and to the authentication manager
deliverFrame(c, data) ==
    /\ sockets[c] \in {"open", "closing"}   \* frames still arrive until the close event
    /\ received["c1"] + received["c2"] < MaxFrames
    /\ LET seq == received[c] + 1
           e == handleMessage(c, seq, data, now)
       IN  /\ received' = [received EXCEPT ![c] = seq]
           /\ lastFrameAt' = [lastFrameAt EXCEPT ![c] = now]
           /\ authenticatedClients' = e.clients
           /\ rateLimits' = e.rateLimits
           /\ sessions' = e.sessions
           /\ handlers' = handlers \cup {[h EXCEPT !.id = data.id] : h \in e.suspended}
           /\ executorCalls' = executorCalls + e.called
           /\ sent' = sendToClient(c, withId(e.envelopes, data.id))
           /\ auditLog' = logAudits(auditLog, gwConfig.enableAuditLog, e.audits)
           /\ effects' = sendThenAudit(sendToClient(c, e.envelopes), Len(e.audits))
    /\ UNCHANGED <<now, fnVars, issued, authResult, gwConfig, sockets>>

\* ws.on("message"), the executor seen from outside: its returns are GwDbReturn
GwReceive(c, data) ==
    /\ deliverFrame(c, data)
    /\ UNCHANGED dbVars

\* handleAuthMessage resumes after `await this.authManager.authenticateUser(...)`
GwAuthResume(h) ==
    /\ h \in handlers /\ h.pc = "await_auth"
    /\ LET fin == finishAuth(h.conn, h.seq, authenticatedClients, h.authResult, now)
       IN  /\ authenticatedClients' = fin.clients
           /\ sent' = sendToClient(h.conn, withId(fin.envelopes, h.id))
           /\ auditLog' = logAudits(auditLog, gwConfig.enableAuditLog, fin.audits)
           /\ effects' = sendThenAudit(sendToClient(h.conn, fin.envelopes), Len(fin.audits))
           /\ issued' = IF sockets[h.conn] = "open" THEN Issue(h.authResult) ELSE issued
    /\ handlers' = handlers \ {h}
    /\ UNCHANGED <<now, fnVars, dbVars, rateLimits, sessions, authResult, gwConfig, sockets,
                   received, lastFrameAt, executorCalls>>

\* handleQueryMessage resumes after `await this.dbClient.query(sql, params)`
GwDbReturn(h, ok) ==
    /\ h \in handlers /\ h.pc = "await_query"
    /\ LET userId == IF h.client.present THEN h.client.user.id ELSE "none"
       IN  IF ok
           THEN /\ sent' = sendToClient(h.conn,
                                        withId(<<Envelope(h.conn, h.seq, "query", "result", "rows")>>,
                                               h.id))
                /\ auditLog' = logAudit(auditLog, gwConfig.enableAuditLog,
                                        AuditEntry(now, h.conn, userId, "query_executed", TRUE))
           ELSE /\ sent' = sendToClient(h.conn,
                                        withId(<<sendError(h.conn, h.seq, "query", "DATABASE_ERROR")>>,
                                               h.id))
                /\ auditLog' = logAudit(auditLog, gwConfig.enableAuditLog,
                                        AuditEntry(now, h.conn, userId, "query_error", FALSE))
    /\ effects' = sendThenAudit(sendToClient(h.conn, <<h.seq>>), 1)
    /\ handlers' = handlers \ {h}
    /\ UNCHANGED <<now, fnVars, dbVars, authVars, gwConfig, sockets, received, lastFrameAt,
                   authenticatedClients, executorCalls>>

\* more than the rate-limit window passes
GwTick ==
    /\ now + RateWindowMs + 1 <= GwMaxNow
    /\ now' = now + RateWindowMs + 1
    /\ UNCHANGED <<fnVars, dbVars, authVars, gwVars>>

\* the idle threshold passes
GwIdleTick ==
    /\ now + IdleTimeoutMs + 1 <= GwMaxIdleNow
    /\ now' = now + IdleTimeoutMs + 1
    /\ UNCHANGED <<fnVars, dbVars, authVars, gwVars>>

\* startCleanupTimer's callback: the records idle for more than the threshold
\* go, their sockets are asked to close, and audit entries older than a day go
GwSweep ==
    LET idle == {c \in Conns : /\ authenticatedClients[c].present
                               /\ now - authenticatedClients[c].lastActivity > IdleTimeoutMs}
    IN  /\ sockets' = [c \in Conns |->
                          IF c \in idle /\ sockets[c] = "open" THEN "closing" ELSE sockets[c]]
        /\ authenticatedClients' =
               [c \in Conns |-> IF c \in idle THEN NoClient ELSE authenticatedClients[c]]
        /\ auditLog' = SelectSeq(auditLog, LAMBDA e : e.timestamp > now - AuditRetentionMs)
        /\ sent' = <<>>
        /\ effects' = <<>>
        /\ UNCHANGED <<now, fnVars, dbVars, authVars, gwConfig, received, lastFrameAt, handlers,
                       executorCalls>>

\* the caller of query() that handleQueryMessage is, and the params it passes
\* (`message.payload.params || []`)
GatewayCaller == "a"
GatewayParams == [defined |-> TRUE, items |-> <<>>]

\* ws.on("message") with the executor being the PostgreSQLClient: a query frame that
\* passes the checks calls query(), which runs up to its first await or to its end.
\* One query is in flight at a time.
ExecReceive(c, data) ==
    LET e == handleMessage(c, received[c] + 1, data, now)
    IN  /\ e.called = 1 => ~\E x \in handlers : x.pc = "await_query"
        /\ deliverFrame(c, data)
        /\ IF e.called = 1
           THEN queryCall(GatewayCaller, (CHOOSE x \in e.suspended : TRUE).sql, GatewayParams)
           ELSE UNCHANGED dbVars

\* handleQueryMessage resumes once the query() it awaits has settled
ExecResume(h) ==
    /\ h \in handlers /\ h.pc = "await_query"
    /\ dbCalls[GatewayCaller].pc = "idle"
    /\ GwDbReturn(h, dbReturned.outcome \in {"hit", "executed"})

\* the gateway over a client constructed with its defaults (caching on)
ExecInit ==
    /\ now = 0
    /\ InitFnIdle
    /\ InitAuth
    /\ InitDb
    /\ dbConfig = [enableCache |-> TRUE]
    /\ gwConfig \in {[requireAuth |-> r, enableAuditLog |-> a] : r \in BOOLEAN, a \in BOOLEAN}
    /\ sockets = [c \in Conns |-> "none"]
    /\ received = [c \in Conns |-> 0]
    /\ lastFrameAt = [c \in Conns |-> 0]
    /\ authenticatedClients = [c \in Conns |-> NoClient]
    /\ handlers = {}
    /\ auditLog = <<>>
    /\ sent = <<>>
    /\ effects = <<>>
    /\ executorCalls = 0

\* one connection, its queries carried out by the PostgreSQLClient
ExecNext ==
    \/ DbConnectBegin
    \/ \E ok \in BOOLEAN : DbConnectSettle(ok)
    \/ GwConnect("c1")
    \/ GwClose("c1")
    \/ \E data \in GwFrames : ExecReceive("c1", data)
    \/ \E h \in handlers : GwAuthResume(h)
    \/ \E h \in handlers : ExecResume(h)
    \/ \E ok \in BOOLEAN : DbPoolConnect(GatewayCaller, ok)
    \/ \E ok \in BOOLEAN : DbDriverReturn(GatewayCaller, ok)

SpecExec == ExecInit /\ [][ExecNext]_vars

(***************************************************************************)
(* InputValidator called again and again                                   *)
(***************************************************************************)
MaxStringLen == 2

\* the statements validateSQL is called with: texts over the chunks that the
\* injection patterns and the statement kinds are spelled with
SqlCallTexts == SeqsUpTo({"select", "drop", "union", "or 1=1", "--", ";", " ", "x"}, MaxSqlLen)

\* the strings validateString is called with
StringInputs == SeqsUpTo(XssChunks \ {"sql"}, MaxStringLen)

\* the string values a message carries
MessageTexts == {<<"x">>, <<"<", "x">>, <<"javascript:", "x">>}

\* the parsed messages: { payload: { sql, note }, note }
Messages ==
    {JsonObject({Entry(<<"payload">>,
                       JsonObject({Entry(<<"sql">>, JsonString(a)),
                                   Entry(<<"note">>, JsonString(b))})),
                 Entry(<<"note">>, JsonString(c))}) :
        a \in MessageTexts, b \in MessageTexts, c \in MessageTexts}

ValInit ==
    /\ now = 0
    /\ InitFnIdle
    /\ InitAuth
    /\ InitGwIdle
    /\ InitDb
    /\ dbConfig = [enableCache |-> FALSE]

\* InputValidator.validateSQL(sql, allowedOperations), any number of times
ValValidateSQL(sql, allowedOperations) ==
    /\ fnIn' = [NoFnIn EXCEPT !.sql = sql, !.allowedOperations = allowedOperations]
    /\ fnOut' = [NoFnOut EXCEPT !.op = "validateSQL",
                                !.validation = validateSQL(sql, allowedOperations)]
    /\ UNCHANGED <<now, lastIndex, dbVars, authVars, gwVars>>

\* InputValidator.validateString(input), any number of times
ValValidateString(input) ==
    LET out == validateString(input, lastIndex)
    IN  /\ fnIn' = [NoFnIn EXCEPT !.input = input]
        /\ fnOut' = [NoFnOut EXCEPT !.op = "validateString", !.string = out.result]
        /\ lastIndex' = out.lastIndex
        /\ UNCHANGED <<now, dbVars, authVars, gwVars>>

\* InputValidator.validateWebSocketMessage(data): its verdict on the structure
ValValidateMessage(frame) ==
    /\ fnIn' = [NoFnIn EXCEPT !.frame = frame]
    /\ fnOut' = [NoFnOut EXCEPT !.op = "validateWebSocketMessage",
                                !.structure = validateWebSocketMessage(frame)]
    /\ UNCHANGED <<now, lastIndex, dbVars, authVars, gwVars>>

\* InputValidator.validateWebSocketMessage(data): its sanitized copy of the message
ValSanitizeMessage(data) ==
    /\ fnIn' = [NoFnIn EXCEPT !.data = data]
    /\ fnOut' = [NoFnOut EXCEPT !.op = "sanitizedMessage", !.message = sanitizedMessage(data)]
    /\ UNCHANGED <<now, lastIndex, dbVars, authVars, gwVars>>

SqlNext == \E sql \in SqlCallTexts, ops \in AllowedOperationsChoices : ValValidateSQL(sql, ops)

SpecSql == ValInit /\ [][SqlNext]_vars

ValNext ==
    \/ \E input \in StringInputs : ValValidateString(input)
    \/ \E frame \in GwFrames : ValValidateMessage(frame)
    \/ \E data \in Messages : ValSanitizeMessage(data)

SpecVal == ValInit /\ [][ValNext]_vars

\* the connections whose socket closes within a behaviour
ClosingConns == {"c1"}

\* two connections, the clock standing still
Next ==
    \/ \E c \in Conns : GwConnect(c)
    \/ \E c \in ClosingConns : GwClose(c)
    \/ \E c \in Conns, data \in GwFrames : GwReceive(c, data)
    \/ \E h \in handlers : GwAuthResume(h)
    \/ \E h \in handlers, ok \in BOOLEAN : GwDbReturn(h, ok)

Init == GwInit

Spec == Init /\ [][Next]_vars

\* one connection, the clock and the cleanup timer running
TimedNext ==
    \/ GwConnect("c1")
    \/ GwClose("c1")
    \/ \E data \in GwFrames : GwReceive("c1", data)
    \/ \E h \in handlers : GwAuthResume(h)
    \/ \E h \in handlers, ok \in BOOLEAN : GwDbReturn(h, ok)
    \/ AuthCleanup
    \/ GwTick

SpecTimed == GwInit /\ [][TimedNext]_vars

\* one connection, the idle threshold passing and the idle sweep running
IdleNext ==
    \/ GwConnect("c1")
    \/ GwClose("c1")
    \/ \E data \in GwFrames : GwReceive("c1", data)
    \/ \E h \in handlers : GwAuthResume(h)
    \/ \E h \in handlers, ok \in BOOLEAN : GwDbReturn(h, ok)
    \/ GwIdleTick
    \/ GwSweep

SpecIdle == GwInit /\ [][IdleNext]_vars

(***************************************************************************)
(* The gateway's audit log at its capacity                                 *)
(***************************************************************************)
AuditSeeds == {0, 998}  \* entries logged before the behaviour starts
AuditMaxNow == 86400000 \* the clock of the audit sweep stops here

\* the log that n/2 earlier connections from the same address, each accepted
\* and closed at time 0, have left
earlierLog(n) ==
    [i \in 1..n |->
        IF i % 2 = 1
        THEN AuditEntry(0, ConnIp("c1"), "none", "connection_attempt", TRUE)
        ELSE AuditEntry(0, "c0", "none", "disconnection", TRUE)]

AuditInit ==
    /\ now = 0
    /\ InitFnIdle
    /\ InitAuth
    /\ InitDb
    /\ dbConfig = [enableCache |-> FALSE]
    /\ gwConfig \in {[requireAuth |-> TRUE, enableAuditLog |-> a] : a \in BOOLEAN}
    /\ sockets = [c \in Conns |-> "none"]
    /\ received = [c \in Conns |-> 0]
    /\ lastFrameAt = [c \in Conns |-> 0]
    /\ authenticatedClients = [c \in Conns |-> NoClient]
    /\ handlers = {}
    /\ auditLog \in {earlierLog(logged(n)) : n \in AuditSeeds}
    /\ sent = <<>>
    /\ effects = <<>>
    /\ executorCalls = 0

\* Array.prototype.slice(-limit): the last `limit` elements; -0 is 0, the whole array
sliceLast(log, limit) ==
    IF limit = 0 \/ limit >= Len(log) THEN log
    ELSE SubSeq(log, Len(log) - limit + 1, Len(log))

\* getAuditLog(limit)
GwGetAuditLog(limit) ==
    /\ fnIn' = [NoFnIn EXCEPT !.limit = limit]
    /\ fnOut' = [NoFnOut EXCEPT !.op = "getAuditLog", !.entries = sliceLast(auditLog, limit)]
    /\ UNCHANGED <<now, lastIndex, dbVars, authVars, gwVars>>

\* getStats (authStats is AuthenticationManager's own summary)
GwGetStats ==
    LET withRole(r) == Cardinality({c \in Conns : /\ authenticatedClients[c].present
                                                  /\ authenticatedClients[c].user.role = r})
    IN  /\ fnIn' = NoFnIn
        /\ fnOut' = [NoFnOut EXCEPT
                       !.op = "getStats",
                       !.stats = [connectedClients |->
                                      Cardinality({c \in Conns : authenticatedClients[c].present}),
                                  auditLogEntries |-> Len(auditLog),
                                  clientsByRole |-> [admin |-> withRole("admin"),
                                                     user |-> withRole("user"),
                                                     readonly |-> withRole("readonly")]]]
        /\ UNCHANGED <<now, lastIndex, dbVars, authVars, gwVars>>

\* the audit retention period passes
GwDayTick ==
    /\ now + AuditRetentionMs <= AuditMaxNow
    /\ now' = now + AuditRetentionMs
    /\ UNCHANGED <<fnVars, dbVars, authVars, gwVars>>

\* frames of audited branches: a query before any auth, an auth that fails
AuditFrames ==
    {Frame("object", "query", "object", <<"select">>, NoCred),
     Frame("object", "auth", "object", <<>>, PasswordCred("admin", "letmein"))}

\* one connection after the earlier ones, the cleanup timer and the readers
AuditNext ==
    \/ GwConnect("c1")
    \/ GwClose("c1")
    \/ \E data \in AuditFrames : GwReceive("c1", data)
    \/ \E h \in handlers : GwAuthResume(h)
    \/ GwDayTick
    \/ GwSweep
    \/ \E limit \in {0, 1, 100} : GwGetAuditLog(limit)
    \/ GwGetStats

SpecAudit == AuditInit /\ [][AuditNext]_vars

(***************************************************************************)
(* The gateway answering frames that carry an id and frames that do not    *)
(***************************************************************************)
FrameIds == {"undefined", "r1"}

\* the frames a client sends: only a JSON object has an `id` property
ReplyFrames ==
    {FrameWithId(data, id) : data \in {f \in GwFrames : f.shape = "object"}, id \in FrameIds}
    \cup {f \in GwFrames : f.shape # "object"}

\* one connection, the clock standing still
ReplyNext ==
    \/ GwConnect("c1")
    \/ GwClose("c1")
    \/ \E data \in ReplyFrames : GwReceive("c1", data)
    \/ \E h \in handlers : GwAuthResume(h)
    \/ \E h \in handlers, ok \in BOOLEAN : GwDbReturn(h, ok)

SpecReply == GwInit /\ [][ReplyNext]_vars

(***************************************************************************)
(* Claims about PostgreSQLClient (checked under SpecDb)                    *)
(***************************************************************************)
\* the statement kind, as the validator classifies it
ClassifiedSelect(sql) == detectQueryType(sql) = "SELECT"

\* the step is query(sql, params) by c, answered from the cache
AnsweredFromCache(c, sql, params) ==
    /\ dbCalls'[c].pc = "idle"
    /\ dbReturned'.caller = c /\ dbReturned'.sql = sql /\ dbReturned'.params = params
    /\ dbReturned'.outcome = "hit"
    /\ performanceMetrics'.cacheHits = performanceMetrics.cacheHits + 1
    /\ driverCalls' = driverCalls

\* C7: with caching enabled, a repeat of an identical SELECT call within the
\* TTL window of the first call never reaches the driver and adds one cache
\* hit, whether the first call has returned its rows or is still suspended in
\* the driver.  (While now <= ttl every call made so far lies in the TTL
\* window of every earlier one.)
C7_RepeatNeverExecutes ==
    [][\A c \in DbCallers, in \in DbInputs :
        ( /\ DbQueryBegin(c, in.sql, in.params)
          /\ pool /\ dbConfig.enableCache /\ ClassifiedSelect(in.sql)
          /\ now <= cacheTtlMs
          /\ \/ \E d \in DbCallers \ {c} :
                    /\ dbCalls[d].pc = "await_query"
                    /\ dbCalls[d].sql = in.sql /\ dbCalls[d].params = in.params
             \/ /\ dbReturned.outcome = "executed"
                /\ dbReturned.sql = in.sql /\ dbReturned.params = in.params )
        => AnsweredFromCache(c, in.sql, in.params)]_vars

\* the entries of cache `new` that cache `old` does not hold
NewEntries(old, new) ==
    {new[i] : i \in 1..Len(new)} \ {old[i] : i \in 1..Len(old)}

\* C8, state part: every cache key is the key of a statement classified SELECT
C8_KeysAreSelect ==
    \A i \in 1..Len(queryCache) :
        \E in \in DbInputs :
            ClassifiedSelect(in.sql) /\ queryCache[i].key = generateCacheKey(in.sql, in.params)

\* C8, step part: an entry enters the cache only in the step in which the
\* driver returns the rows of a SELECT, under that call's key and with those
\* rows; a call of a statement not classified SELECT leaves the cache and the
\* hit/miss counters alone and is never answered from the cache.
C8_Step ==
    /\ \A e \in NewEntries(queryCache, queryCache') :
          \E c \in DbCallers :
              /\ dbCalls[c].pc = "await_query" /\ dbCalls'[c].pc = "idle"
              /\ ClassifiedSelect(dbCalls[c].sql)
              /\ dbReturned' = Returned(c, dbCalls[c].sql, dbCalls[c].params, "executed", e.result)
              /\ e.key = generateCacheKey(dbCalls[c].sql, dbCalls[c].params)
    /\ \A c \in DbCallers :
          LET call == IF dbCalls[c].pc = "idle" THEN dbCalls'[c] ELSE dbCalls[c]
          IN  (dbCalls'[c] # dbCalls[c] /\ ~ClassifiedSelect(call.sql))
              => /\ queryCache' = queryCache
                 /\ performanceMetrics'.cacheHits = performanceMetrics.cacheHits
                 /\ performanceMetrics'.cacheMisses = performanceMetrics.cacheMisses
    /\ (dbReturned' # dbReturned /\ ~ClassifiedSelect(dbReturned'.sql))
          => dbReturned'.outcome # "hit" /\ queryCache' = queryCache

\* C8: every query-cache entry was stored by a successful execution of a
\* statement classified SELECT; other statements neither read nor write it.
C8_OnlySelectCached == []C8_KeysAreSelect /\ [][C8_Step]_vars

\* a SELECT is cached and a write has been executed since
C8_Witness ==
    /\ queryCache # <<>>
    /\ dbReturned.outcome = "executed" /\ ~ClassifiedSelect(dbReturned.sql)
    /\ dbData = 1

\* the step stores the rows of a completed miss
StoresResult(c) ==
    /\ dbCalls[c].pc = "await_query" /\ dbCalls'[c].pc = "idle"
    /\ dbReturned'.outcome = "executed"
    /\ dbConfig.enableCache /\ ClassifiedSelect(dbCalls[c].sql)

\* C9, step part: when the cache holds cacheMaxSize entries and a
\* cache-eligible miss completes, the earliest inserted entry is removed, no
\* other entry is, and the new entry is in the cache afterwards.
C9_Step ==
    \A c \in DbCallers :
        (StoresResult(c) /\ Len(queryCache) = cacheMaxSize)
        => LET k == generateCacheKey(dbCalls[c].sql, dbCalls[c].params)
               oldest == queryCache[1]
           IN  /\ \A j \in 1..Len(queryCache') :
                      queryCache'[j].key = oldest.key => oldest.key = k
               /\ \A i \in 2..Len(queryCache) :
                      queryCache[i].key # k => \E j \in 1..Len(queryCache') :
                                                    queryCache'[j] = queryCache[i]
               /\ \E j \in 1..Len(queryCache') :
                      /\ queryCache'[j].key = k
                      /\ queryCache'[j].result = dbReturned'.rows
                      /\ queryCache'[j].timestamp = now

C6_RoleDecision ==
    fnOut.op = "isQueryAllowed"
    => /\ fnIn.user.role = "admin" => fnOut.decision.allowed
       /\ fnIn.user.role = "readonly"
              => (fnOut.decision.allowed <=> detectQueryType(fnIn.sql) = "SELECT")

\* a readonly identity was allowed a SELECT written with surrounding blanks
\* and in upper case
C6_Witness ==
    /\ fnOut.op = "isQueryAllowed"
    /\ fnIn.user.role = "readonly"
    /\ fnIn.sql = <<" ", "SELECT", " ">>
    /\ fnOut.decision.allowed

(***************************************************************************)
(* Claims about AuthenticationManager (checked under SpecAuth)             *)
(***************************************************************************)
\* C5: a token issued by a successful authentication, validated at any time
\* up to issuedAt + sessionTimeout, is accepted and yields the identity it was
\* issued for (the registry's); validated later it is rejected.
C5_TokenRoundTrip ==
    [][\A it \in issued :
        AuthValidateToken(it.token)
        => IF now <= it.issuedAt + sessionTimeout
           THEN /\ authResult'.success
                /\ authResult'.user = it.user
                /\ it.user = DefaultUsers[it.user.username]
           ELSE ~authResult'.success]_vars

\* a token was accepted in the last millisecond of its life, after the clock
\* moved
C5_Witness ==
    /\ authResult.op = "validateToken" /\ authResult.success
    /\ \E it \in issued :
          /\ it.token = authResult.token
          /\ it.user = authResult.user
          /\ now = it.issuedAt + sessionTimeout
    /\ now > 0

(***************************************************************************)
(* Claims about SecureWebSocketServer (checked under Spec and SpecTimed)   *)
(***************************************************************************)
\* a query frame as the message contract has it
WellFormedQuery(data) ==
    data.shape = "object" /\ data.type = "query" /\ data.payload = "object" /\ data.sql # <<>>

\* the step starts no handler for a query and does not call the executor
ExecutorNotCalled ==
    /\ executorCalls' = executorCalls
    /\ \A h \in handlers' \ handlers : h.pc # "await_query"

\* C1: with requireAuth, a query frame received on a connection without an
\* authenticated identity is answered with the error AUTH_REQUIRED and the
\* executor is not called for it.
C1_AuthRequired ==
    [][\A c \in Conns, data \in GwFrames :
        ( /\ data.type = "query" /\ data.shape = "object"
          /\ gwConfig.requireAuth /\ ~authenticatedClients[c].present
          /\ GwReceive(c, data) )
        => /\ ExecutorNotCalled
           /\ WellFormedQuery(data)
                 => sent' = <<sendError(c, received[c] + 1, "query", "AUTH_REQUIRED")>>]_vars

\* an unauthenticated connection's query was answered AUTH_REQUIRED
C1_Witness ==
    /\ gwConfig.requireAuth
    /\ Len(sent) = 1
    /\ sent[1].re = "query" /\ sent[1].code = "AUTH_REQUIRED"
    /\ ~authenticatedClients[sent[1].conn].present
    /\ executorCalls = 0

\* a query frame whose SQL fails validateSQL against allowedQueryTypes
FailsValidation(data) ==
    WellFormedQuery(data) /\ ~validateSQL(data.sql, allowedQueryTypes).isValid

\* C2 as stated: a query frame whose SQL fails validateSQL is, in every
\* connection state and for every role, answered with the validation error
\* and the executor is not called.
C2_AlwaysValidationError ==
    [][\A c \in Conns, data \in GwFrames :
        (FailsValidation(data) /\ GwReceive(c, data))
        => /\ ExecutorNotCalled
           /\ sent' = <<sendError(c, received[c] + 1, "query", "SQL_VALIDATION_ERROR")>>]_vars

\* C2 as amended: for a query frame whose SQL fails validateSQL the executor
\* is never called, in every connection state and for every role; the frame
\* is answered RATE_LIMIT when the connection is over its request limit,
\* else AUTH_REQUIRED when authentication is required and missing, else
\* SQL_VALIDATION_ERROR with a non-empty list of reasons and one audit entry.
C2_InvalidSqlNeverExecuted ==
    [][\A c \in Conns, data \in GwFrames :
        (FailsValidation(data) /\ GwReceive(c, data))
        => LET client == authenticatedClients[c]
               code == IF ~checkRateLimit(authenticatedClients, c, now).ok
                       THEN "RATE_LIMIT"
                       ELSE IF gwConfig.requireAuth /\ ~client.present
                       THEN "AUTH_REQUIRED"
                       ELSE "SQL_VALIDATION_ERROR"
           IN  /\ ExecutorNotCalled
               /\ sent' = <<sendError(c, received[c] + 1, "query", code)>>
               /\ validateSQL(data.sql, allowedQueryTypes).errors # {}
               /\ (code = "SQL_VALIDATION_ERROR" /\ gwConfig.enableAuditLog)
                     => /\ Len(auditLog') = Len(auditLog) + 1
                        /\ auditLog'[Len(auditLog')].action = "query_validation_failed"]_vars

\* an admin's statement was refused by validation and never executed
C2_Witness ==
    /\ Len(sent) = 1
    /\ sent[1].re = "query" /\ sent[1].code = "SQL_VALIDATION_ERROR"
    /\ authenticatedClients[sent[1].conn].user.role = "admin"
    /\ executorCalls = 0

\* C3: while a query frame of a connection is suspended in the database call,
\* the gateway does not start handling a later frame of that connection: the
\* suspended frame is the latest one the connection has delivered.
C3_OneFrameAtATime ==
    \A h \in handlers :
        h.pc = "await_query" => received[h.conn] = h.seq

\* an address is locked out: maxFailedAttempts failures are on record and
\* lockoutDuration has not passed since the last of them
LockedOut(ip) ==
    /\ rateLimits[ip].present
    /\ rateLimits[ip].attempts >= maxFailedAttempts
    /\ now < rateLimits[ip].lastAttempt + lockoutDuration

\* C4: an authentication attempt from a locked-out address is rejected with
\* RATE_LIMIT, whatever credentials it presents: a frame answered at once gets
\* RATE_LIMIT, and one whose answer is deferred does not succeed.
C4_LockedOutRejected ==
    [][\A c \in Conns, data \in GwFrames :
        ( /\ data.type = "auth" /\ data.payload = "object" /\ data.cred.mode # "none"
          /\ LockedOut(ConnIp(c))
          /\ GwReceive(c, data) )
        => /\ sent' # <<>> => sent' = <<sendError(c, received[c] + 1, "auth", "RATE_LIMIT")>>
           /\ \A h \in handlers' \ handlers : ~h.authResult.success
           /\ authenticatedClients'[c] = authenticatedClients[c]]_vars

\* the outcomes the gateway audits, by the code of the envelope
AuditedAction(code) ==
    CASE code = "authenticated" -> "authentication"
      [] code = "AUTH_ERROR" -> "authentication"
      [] code = "SQL_VALIDATION_ERROR" -> "query_validation_failed"
      [] code = "PERMISSION_DENIED" -> "query_permission_denied"
      [] code = "rows" -> "query_executed"
      [] code = "DATABASE_ERROR" -> "query_error"
      [] OTHER -> "none"

\* the outcomes C10 lists, by the code of the envelope
TerminalOutcomes ==
    {"pong", "authenticated", "AUTH_ERROR", "AUTH_REQUIRED", "RATE_LIMIT", "SQL_VALIDATION_ERROR",
     "PERMISSION_DENIED", "rows", "DATABASE_ERROR", "UNSUPPORTED_TYPE"}

\* the step answers a frame with one of these outcomes
AnswersFrame ==
    Len(sent') = 1 /\ sent'[1].seq > 0 /\ sent'[1].code \in TerminalOutcomes

PresentsCredentials(data) ==
    data.type = "auth" /\ data.payload = "object" /\ data.cred.mode # "none"

C11_PingEchoed ==
    [][\A c \in Conns, data \in GwFrames :
        ( /\ data.shape = "object" /\ data.type = "ping" /\ data.payload # "undefined"
          /\ received'[c] = received[c] + 1
          /\ GwReceive(c, data) )
        => sent' = <<[Envelope(c, received[c] + 1, "ping", "result", "pong")
                        EXCEPT !.echo = data.payload]>>]_vars

\* a frame that is not valid JSON, or breaks the message contract: no JSON
\* object, no type or an unknown one, no payload, a query without sql, an auth
\* without credentials
StructurallyInvalid(data) ==
    \/ data.shape # "object"
    \/ data.type \notin {"query", "auth", "ping", "result", "error"}
    \/ data.payload = "undefined"
    \/ data.type = "query" /\ data.payload = "object" /\ data.sql = <<>>
    \/ data.type = "auth" /\ data.payload = "object" /\ data.cred.mode = "none"

ReceivesFailingAuth(c, data) ==
    /\ data.type = "auth" /\ ~StructurallyInvalid(data)
    /\ received'[c] = received[c] + 1
    /\ GwReceive(c, data)
    /\ ~(sent' # <<>> /\ sent'[1].code = "authenticated")

\* the step resumes a username/password authentication that failed
ResumesFailedAuth(h) ==
    /\ h.pc = "await_auth" /\ ~h.authResult.success
    /\ handlers' = handlers \ {h} /\ received' = received

\* C13 as stated: a failed auth frame is answered with AUTH_ERROR, does not
\* close the connection and leaves the connection's record exactly as it was,
\* identity and counters.
C13_FailedAuthChangesNothing ==
    [][/\ \A data \in GwFrames :
            ReceivesFailingAuth("c1", data)
            => /\ sent' # <<>> => sent' = <<sendError("c1", received'["c1"], "auth", "AUTH_ERROR")>>
               /\ authenticatedClients' = authenticatedClients
               /\ sockets' = sockets
       /\ \A h \in handlers :
            ResumesFailedAuth(h)
            => /\ sent' # <<>> => sent' = <<sendError(h.conn, h.seq, "auth", "AUTH_ERROR")>>
               /\ authenticatedClients' = authenticatedClients
               /\ sockets' = sockets]_vars

\* C13 as amended: a failed auth frame is answered with AUTH_ERROR, or with
\* RATE_LIMIT when it arrives on a connection whose identity is over its
\* request limit; it does not close the connection and leaves the
\* connection's identity and last-activity time as they were; the request
\* counter is as it was too, except that it is reset to zero when more than a
\* minute has passed since the connection's last activity.
C13_FailedAuthKeepsIdentity ==
    [][/\ \A data \in GwFrames :
            ReceivesFailingAuth("c1", data)
            => LET client == authenticatedClients["c1"]
                   resetDue == client.present /\ client.lastActivity < now - RateWindowMs
                   count == IF resetDue THEN 0 ELSE client.requestCount
                   code == IF client.present /\ count >= maxRequestsPerMinute
                           THEN "RATE_LIMIT" ELSE "AUTH_ERROR"
               IN  /\ sent' # <<>> => sent' = <<sendError("c1", received'["c1"], "auth", code)>>
                   /\ authenticatedClients' =
                          [authenticatedClients EXCEPT !["c1"].requestCount = count]
                   /\ sockets' = sockets
       /\ \A h \in handlers :
            ResumesFailedAuth(h)
            => /\ sent' # <<>> => sent' = <<sendError(h.conn, h.seq, "auth", "AUTH_ERROR")>>
               /\ authenticatedClients' = authenticatedClients
               /\ sockets' = sockets]_vars

\* an administrator's connection was refused a second authentication and is
\* still the administrator's
C13_Witness ==
    /\ Len(sent) = 1 /\ sent[1].re = "auth" /\ sent[1].code = "AUTH_ERROR"
    /\ sockets["c1"] = "open"
    /\ authenticatedClients["c1"].present
    /\ authenticatedClients["c1"].user.role = "admin"

\* C14: every successful authentication by username/password or by API key
\* returns a signed session token, and that token validates to the identity
\* that was authenticated.
C14_SuccessIssuesToken ==
    (authResult.success /\ authResult.op \in {"authenticateUser", "authenticateApiKey"})
    => /\ authResult.token # <<>>
       /\ decodeToken(authResult.token) # NoPayload
       /\ validateToken(sessions, authResult.token, now).result.success
       /\ validateToken(sessions, authResult.token, now).result.user = authResult.user

\* the step decides an auth frame of connection c in favour of the client:
\* the success is answered at once (token, API key) or the handler suspends
\* with the authentication manager's success in hand (username/password)
AuthenticationSucceeds(c, data) ==
    /\ data.type = "auth"
    /\ received'[c] = received[c] + 1
    /\ GwReceive(c, data)
    /\ \/ sent' # <<>> /\ sent'[1].code = "authenticated"
       \/ \E h \in handlers' \ handlers : h.authResult.success

\* C15: after a successful authentication from an address, by token, API key
\* or username/password, no rate-limit record remains for that address.
C15_SuccessClearsRecord ==
    [][\A c \in Conns, data \in GwFrames :
        AuthenticationSucceeds(c, data) => ~rateLimits'[ConnIp(c)].present]_vars

\* C16: every open connection, authenticated, anonymous or not yet
\* authenticated, that has delivered no frame for longer than the idle
\* threshold is closed by the next sweep.
C16_IdleClosedBySweep ==
    [][GwSweep
        => \A c \in Conns :
              (sockets[c] = "open" /\ now - lastFrameAt[c] > IdleTimeoutMs)
              => sockets'[c] # "open"]_vars

\* connection c has an identity whose request counter has reached the ceiling,
\* and no more than a minute has passed since its last recorded activity
Throttled(c) ==
    /\ authenticatedClients[c].present
    /\ authenticatedClients[c].requestCount >= maxRequestsPerMinute
    /\ ~(authenticatedClients[c].lastActivity < now - RateWindowMs)

\* C17: once the request counter of a connection with an identity has reached
\* maxRequestsPerMinute, the connection stays throttled while no more than a
\* minute has passed since its last recorded activity: every further
\* well-formed frame is answered RATE_LIMIT and not processed, and nothing
\* lowers the counter; after more than a minute the counter is reset and the
\* next frame is not answered RATE_LIMIT.
C17_ThrottledForAMinute ==
    [][/\ \A data \in GwFrames :
            ( /\ ~StructurallyInvalid(data)
              /\ authenticatedClients["c1"].present
              /\ received'["c1"] = received["c1"] + 1
              /\ GwReceive("c1", data) )
            => IF Throttled("c1")
               THEN /\ sent' = <<sendError("c1", received'["c1"], data.type, "RATE_LIMIT")>>
                    /\ executorCalls' = executorCalls /\ handlers' = handlers
                    /\ authenticatedClients' = authenticatedClients
               ELSE ~(sent' # <<>> /\ sent'[1].code = "RATE_LIMIT")
       /\ (Throttled("c1") /\ now' = now /\ authenticatedClients'["c1"].present)
            => authenticatedClients'["c1"].requestCount >= maxRequestsPerMinute]_vars

\* C18: when the driver fails the statement of a gateway query, query() gives
\* the pooled connection back and leaves the pool, the socket and the identity
\* as they were, and its caller may call again; the handler that awaited it
\* then writes one DATABASE_ERROR envelope for that request to the open socket,
\* logs a failed query_error entry for the connection, and leaves the socket
\* open, the identity in place and the pool connected.
C18_DriverFailureContained ==
    [][/\ DbDriverReturn(GatewayCaller, FALSE)
            => /\ poolLeased' = poolLeased - 1
               /\ poolLeased' = 0
               /\ pool' = pool
               /\ dbCalls'[GatewayCaller] = IdleCall
               /\ dbReturned'.outcome = "failed"
               /\ sockets' = sockets
               /\ authenticatedClients' = authenticatedClients
       /\ \A h \in handlers :
            (ExecResume(h) /\ dbReturned.outcome = "failed")
            => /\ sockets[h.conn] = "open"
                    => sent' = <<sendError(h.conn, h.seq, "query", "DATABASE_ERROR")>>
               /\ gwConfig.enableAuditLog
                    => /\ Len(auditLog') = Len(auditLog) + 1
                       /\ auditLog'[Len(auditLog')].clientId = h.conn
                       /\ auditLog'[Len(auditLog')].action = "query_error"
                       /\ ~auditLog'[Len(auditLog')].success
               /\ sockets' = sockets
               /\ authenticatedClients' = authenticatedClients
               /\ pool' = pool
               /\ poolLeased' = poolLeased]_vars

\* a query failed by the driver was answered and audited, and a later query on
\* the same connection has been executed and answered with its rows
C18_Witness ==
    /\ \E i \in 1..Len(auditLog) :
            auditLog[i].action = "query_error" /\ auditLog[i].clientId = "c1"
    /\ sent # <<>> /\ sent[1].conn = "c1" /\ sent[1].code = "rows"
    /\ dbReturned.outcome = "executed"
    /\ sockets["c1"] = "open"
    /\ pool /\ poolLeased = 0

\* C19: the rows a read is answered with are the database content as left by
\* the writes completed before the read was called, whatever was read before
\* those writes; in particular a read answered from the cache gives the
\* current content.
C19_ReadsReflectWrites ==
    [][\A c \in DbCallers, in \in DbInputs :
        ( /\ DbQueryBegin(c, in.sql, in.params)
          /\ pool
          /\ dbCalls' = dbCalls
          /\ dbReturned'.outcome = "hit" )
        => dbReturned'.rows = dbData]_vars

\* C20: a query() called while the client has no pool (never connected, after
\* a failed connect(), or after disconnect()) is rejected as not connected and
\* changes nothing else: no statement reaches the driver, no pooled connection
\* is taken, and the cache and the counters stay as they were; and a connect()
\* whose test connection fails ends with the client having no pool.
C20_NotConnectedRejected ==
    [][/\ \A in \in DbInputs :
            (DbQueryBegin("a", in.sql, in.params) /\ ~pool)
            => /\ dbReturned' = Returned("a", in.sql, in.params, "not_connected", 0)
               /\ UNCHANGED <<pool, dbLifecycle, poolLeased, queryCache, performanceMetrics,
                              dbCalls, driverCalls, dbData, dbBegun>>
       /\ DbConnectSettle(FALSE) => (~pool' /\ dbLifecycle' = "idle")]_vars

\* a client that has executed and cached a SELECT has no pool any more (its
\* connect() failed or it was disconnected), and the query() called after that
\* was rejected as not connected
C20_Witness ==
    /\ ~pool /\ dbLifecycle = "idle"
    /\ dbReturned.outcome = "not_connected"
    /\ queryCache # <<>>
    /\ performanceMetrics.queryCount > 0

(***************************************************************************)
(* Claims about the InputValidator called repeatedly (SpecSql, SpecVal)    *)
(***************************************************************************)
\* C21: every call of validateSQL on a text that matches one of the injection
\* patterns reports isValid = FALSE and a non-empty set of errors, whatever
\* the allowed statement kinds are and whatever was validated before.
C21_InjectionRejected ==
    ( /\ fnOut.op = "validateSQL"
      /\ \E p \in InjectionPatterns : MatchesPattern(p, fnIn.sql) )
    => /\ ~fnOut.validation.isValid
       /\ fnOut.validation.errors # {}

\* a SELECT with a trailing line comment, of an allowed kind and without a
\* dangerous keyword, was reported invalid for the injection pattern alone
C21_Witness ==
    /\ fnOut.op = "validateSQL"
    /\ fnIn.sql = <<"select", "--", "x">>
    /\ fnOut.validation.queryType = "SELECT"
    /\ fnOut.validation.errors = {<<"injection", "line_comment">>}
    /\ ~fnOut.validation.isValid

\* C22: validateString reports every input that contains a match of an XSS
\* pattern as invalid, on every call and whatever was validated before.
C22_XssAlwaysReported ==
    ( /\ fnOut.op = "validateString"
      /\ \E i \in 1..Len(fnIn.input), p \in {"script", "javascript", "handler"} :
            XssMatch(p, fnIn.input[i]) )
    => ~fnOut.string.isValid

(***************************************************************************)
(* Claims about the order of the gateway's checks and effects              *)
(***************************************************************************)
\* the first check, in the order authentication, rate limit, SQL validation,
\* role authorization, that a query frame arriving on connection c fails;
\* "none" if it passes them all
FirstFailedCheck(c, data) ==
    LET client == authenticatedClients[c]
        sql == IF data.payload = "object" THEN data.sql ELSE <<>>
    IN  IF gwConfig.requireAuth /\ ~client.present THEN "AUTH_REQUIRED"
        ELSE IF Throttled(c) THEN "RATE_LIMIT"
        ELSE IF ~validateSQL(sql, allowedQueryTypes).isValid THEN "SQL_VALIDATION_ERROR"
        ELSE IF client.present /\ ~isQueryAllowed(client.user, sql).allowed
        THEN "PERMISSION_DENIED"
        ELSE "none"

\* C23: a query frame that passes structural validation is answered with the
\* error code of the first check it fails, in the order AUTH_REQUIRED,
\* RATE_LIMIT, SQL_VALIDATION_ERROR, PERMISSION_DENIED, and then nothing is
\* executed; a frame that fails none is handed to the executor, and a failed
\* execution is answered DATABASE_ERROR.
C23_FirstFailedCheckAnswers ==
    [][/\ \A c \in Conns, data \in GwFrames :
            ( /\ data.type = "query" /\ ~StructurallyInvalid(data)
              /\ received'[c] = received[c] + 1
              /\ GwReceive(c, data) )
            => IF FirstFailedCheck(c, data) = "none"
               THEN executorCalls' = executorCalls + 1 /\ sent' = <<>>
               ELSE /\ sent' = <<sendError(c, received'[c], "query", FirstFailedCheck(c, data))>>
                    /\ executorCalls' = executorCalls
                    /\ handlers' = handlers
       /\ \A h \in handlers :
            (GwDbReturn(h, FALSE) /\ sockets[h.conn] = "open")
            => sent' = <<sendError(h.conn, h.seq, "query", "DATABASE_ERROR")>>]_vars

\* C24: in every step that both appends an audit entry and writes a response
\* envelope, the entry is appended before the envelope is written.
C24_AuditPrecedesResponse ==
    \A i \in DOMAIN effects, j \in DOMAIN effects :
        (effects[i] = "audit" /\ effects[j] = "send") => i < j

\* C25: a frame that passes validateWebSocketMessage is a JSON object with one
\* of the recognized types and a payload; if it is a query frame its payload
\* is an object with a non-empty sql text, and if it is an auth frame its
\* payload is an object carrying credentials.
C25_ValidFrameWellFormed ==
    (fnOut.op = "validateWebSocketMessage" /\ fnOut.structure.isValid)
    => /\ fnIn.frame.shape = "object"
       /\ fnIn.frame.type \in {"query", "auth", "ping", "result", "error"}
       /\ fnIn.frame.payload # "undefined"
       /\ fnIn.frame.type = "query"
            => (fnIn.frame.payload = "object" /\ fnIn.frame.sql # <<>>)
       /\ fnIn.frame.type = "auth"
            => (fnIn.frame.payload = "object" /\ fnIn.frame.cred.mode # "none")

\* `out` is `in` with every string value that does not lie under a key `sql`
\* replaced by its sanitization, and every value under such a key unchanged
RECURSIVE SanitizedExceptSql(_, _, _)
SanitizedExceptSql(in, out, underSql) ==
    IF in.kind = "string"
    THEN out = IF underSql THEN in ELSE JsonString(sanitizeString(in.text))
    ELSE /\ out.kind = "object"
         /\ {e.key : e \in out.entries} = {e.key : e \in in.entries}
         /\ \A e \in in.entries : \E f \in out.entries :
                /\ f.key = e.key
                /\ SanitizedExceptSql(e.value, f.value, underSql \/ e.key = <<"sql">>)

\* C26: the sanitized message returned by validateWebSocketMessage has every
\* string value, at every depth, passed through sanitizeString, except the
\* values under a key named sql, which are unchanged.
C26_SanitizedExceptSql ==
    fnOut.op = "sanitizedMessage" => SanitizedExceptSql(fnIn.data, fnOut.message, FALSE)

\* the step is a query() call that gives rows back to its caller: answered
\* from the cache as it is called, or by the driver as the statement completes
ReturnsRows ==
    \/ /\ dbBegun' = dbBegun + 1
       /\ dbCalls' = dbCalls
       /\ dbReturned'.outcome = "hit"
    \/ \E c \in DbCallers :
          /\ dbCalls[c].pc = "await_query" /\ dbCalls'[c].pc = "idle"
          /\ dbReturned'.outcome = "executed"

\* C27: every call to query() that returns rows, whether served from the cache
\* or executed by the driver, increments the total query count by one (and with
\* it brings the cumulative and the average duration up to date).
C27_EveryReturnCounted ==
    [][ReturnsRows => performanceMetrics'.queryCount = performanceMetrics.queryCount + 1]_vars

\* the step is a read of the log, the clock moving, or the cleanup timer
ReadsAuditLog == GwGetStats \/ \E limit \in {0, 1, 100} : GwGetAuditLog(limit)
NoAuditCall == ReadsAuditLog \/ GwDayTick \/ GwSweep

\* C28, step part: the entries handed to logAudit in the step are at the end of
\* the log in the order of the calls, the entries before them are the earlier
\* log in its order less its oldest entries, and entries are dropped only when
\* the log is full or by the cleanup timer for their age; a read leaves the log
\* as it is.
C28_Step ==
    LET k == IF NoAuditCall THEN 0
             ELSE Cardinality({i \in DOMAIN effects' : effects'[i] = "audit"})
        kept == Len(auditLog') - k
        drop == Len(auditLog) - kept
    IN  /\ kept >= 0 /\ drop >= 0
        /\ SubSeq(auditLog', 1, kept) = SubSeq(auditLog, drop + 1, Len(auditLog))
        /\ \A i \in (kept + 1)..Len(auditLog') : auditLog'[i].timestamp = now
        /\ drop > 0 =>
              \/ ~NoAuditCall /\ Len(auditLog') = AuditLogMax
              \/ GwSweep /\ \A i \in 1..drop : auditLog[i].timestamp <= now - AuditRetentionMs
        /\ ReadsAuditLog => auditLog' = auditLog

\* C28: the audit log holds at most 1000 entries, the most recently appended
\* ones in append order, the oldest being dropped first; with audit logging
\* disabled nothing is ever appended; getAuditLog and getStats never change it.
C28_AuditLogBounded ==
    /\ [](Len(auditLog) <= AuditLogMax)
    /\ [](~gwConfig.enableAuditLog => auditLog = <<>>)
    /\ [][C28_Step]_vars

\* the log is full, its oldest entry has been dropped for the entry of the
\* connection that has just closed, and the log has been read since
C28_Witness ==
    /\ Len(auditLog) = AuditLogMax
    /\ auditLog[1].action = "disconnection"
    /\ auditLog[AuditLogMax].action = "disconnection" /\ auditLog[AuditLogMax].clientId = "c1"
    /\ fnOut.op = "getAuditLog" /\ Len(fnOut.entries) = 100

\* C29: a connection record exists only for a socket that is currently open:
\* once the socket's close event has been handled or the idle sweep has evicted
\* the connection, the connection table holds no record for it, and no message
\* handler still in flight re-creates it.
C29_RecordOnlyForOpenSocket ==
    \A c \in Conns : authenticatedClients[c].present => sockets[c] = "open"

\* C30, step part: the step that accepts connection c writes the welcome
\* envelope with c's identifier and nothing else; any other step that writes an
\* envelope to c finds c accepted and open and writes no welcome; an accepted
\* connection is never accepted again.
C30_Step ==
    \A c \in Conns :
        /\ (sockets[c] = "none" /\ sockets'[c] # "none")
              => /\ sockets'[c] = "open"
                 /\ sent' = <<[conn |-> c, seq |-> 0, re |-> "", type |-> "result",
                               code |-> "welcome", echo |-> "absent", id |-> "welcome"]>>
        /\ (sockets[c] # "none" \/ sockets'[c] = "none")
              => \A i \in 1..Len(sent') :
                     sent'[i].conn = c
                       => /\ sockets[c] = "open"
                          /\ sent'[i].code # "welcome"
                          /\ sent'[i].seq >= 1
        /\ sockets[c] # "none" => sockets'[c] # "none"

\* C30: on every accepted connection the first envelope the gateway sends is
\* the welcome envelope carrying the connection identifier, and it is sent
\* exactly once, before any response to a frame of that connection.
C30_WelcomeFirstOnce == [][C30_Step]_vars

\* the second connection has been welcomed and has had a frame answered
C30_Witness ==
    /\ sockets["c2"] = "open"
    /\ received["c2"] = 1
    /\ sent # <<>> /\ sent[1].conn = "c2" /\ sent[1].seq = 1

\* the envelope carries the correlation id of a frame whose own id is `id`
CarriesCorrelationId(envelope, id) ==
    /\ envelope.id # "undefined"
    /\ id # "undefined" => envelope.id = id

\* C31: every response to a frame that parsed as a JSON object carries a
\* correlation id: the frame's own id when it supplied one, otherwise an id
\* generated by the gateway.
C31_ResponsesCarryId ==
    [][/\ \A data \in ReplyFrames :
            (GwReceive("c1", data) /\ data.shape = "object")
            => \A i \in 1..Len(sent') : CarriesCorrelationId(sent'[i], data.id)
       /\ \A h \in handlers :
            (GwAuthResume(h) \/ \E ok \in BOOLEAN : GwDbReturn(h, ok))
            => \A i \in 1..Len(sent') : CarriesCorrelationId(sent'[i], h.id)]_vars

\* C32: for every inbound frame received on an open connection the gateway
\* sends exactly one response envelope, never zero and never two: the step that
\* receives the frame either writes one envelope or suspends one handler for
\* it, and a handler that resumes on an open socket writes one envelope.
C32_ExactlyOneResponse ==
    [][/\ \A c \in Conns :
            received'[c] # received[c]
            => Len(sent') + Cardinality(handlers' \ handlers) = 1
       /\ \A h \in handlers \ handlers' :
            sockets[h.conn] = "open" => Len(sent') = 1]_vars

\* C33: a connection's request counter returns to zero only when more than one
\* minute has elapsed since its last recorded activity; no frame the client
\* sends resets it.
C33_CounterResetOnlyByTime ==
    [][\A c \in Conns :
          (/\ authenticatedClients[c].present /\ authenticatedClients'[c].present
           /\ authenticatedClients[c].requestCount > 0
           /\ authenticatedClients'[c].requestCount = 0)
          => authenticatedClients[c].lastActivity < now - RateWindowMs]_vars

\* C34: with requireAuth disabled, every query that reaches the executor was
\* authorized against the identity attached to its connection, so that a query
\* executed for a connection that holds no identity but the read-only
\* anonymous one is a SELECT, whatever the interleaving of message handling,
\* idle-timeout eviction and socket close.
C34_AnonymousOnlySelects ==
    ~gwConfig.requireAuth
    => \A h \in handlers :
           (h.pc = "await_query" /\ (~h.client.present \/ h.client.user.role = "readonly"))
           => StartsWith(Trim(ToLowerCase(h.sql)), "select")

\* the lockout of the address has run out
LockoutExpired(ip) ==
    /\ rateLimits[ip].present
    /\ Truthy(rateLimits[ip].lockedUntil)
    /\ now >= rateLimits[ip].lockedUntil

\* the step records one failed attempt against the address
RecordsFailure(ip) ==
    /\ rateLimits'[ip].present
    /\ rateLimits'[ip].attempts = rateLimits[ip].attempts + 1

\* C35: after a lockout on an address has expired, a single failed attempt does
\* not lock the address out again, whether or not the periodic cleanup has run
\* since the expiry: the address is locked out again only after
\* maxFailedAttempts further failures.
C35_OneFailureDoesNotRelock ==
    [][\A ip \in Ips :
          (LockoutExpired(ip) /\ RecordsFailure(ip))
          => ~isRateLimited(rateLimits', ip, now')]_vars

\* the step is a username/password attempt from the address, rejected as rate limited
RejectedAsLimited(ip) ==
    /\ isRateLimited(rateLimits, ip, now)
    /\ \E cred \in Credentials : AuthAuthenticateUser(cred, ip)

\* C36: a username/password attempt from a locked-out address is rejected
\* without being counted: it changes neither the failure count, the
\* last-attempt time nor lockedUntil; so every lockout ends lockoutDuration
\* after the failure that triggered it, and a correct username/password
\* attempt made at or after that time succeeds.
C36_LockedAttemptsNotCounted ==
    /\ [](\A ip \in Ips :
            (rateLimits[ip].present /\ Truthy(rateLimits[ip].lockedUntil))
            => rateLimits[ip].lockedUntil = rateLimits[ip].lastAttempt + lockoutDuration)
    /\ [][\A ip \in Ips :
            /\ RejectedAsLimited(ip) => ~authResult'.success /\ rateLimits' = rateLimits
            /\ (/\ rateLimits[ip].present
                /\ Truthy(rateLimits[ip].lockedUntil)
                /\ now >= rateLimits[ip].lockedUntil
                /\ AuthAuthenticateUser([username |-> "admin", password |-> "admin123"], ip))
               => authResult'.success /\ ~rateLimits'[ip].present]_vars

\* a locked-out address has had an attempt rejected, and the lockout still ends
\* lockoutDuration after the failure that triggered it
C36_Witness ==
    /\ authResult.op = "authenticateUser" /\ ~authResult.success
    /\ authResult.error = "Too many failed attempts. Please try again later."
    /\ rateLimits["10.0.0.1"].present
    /\ rateLimits["10.0.0.1"].attempts = maxFailedAttempts
    /\ rateLimits["10.0.0.1"].lockedUntil = rateLimits["10.0.0.1"].lastAttempt + lockoutDuration
    /\ now > rateLimits["10.0.0.1"].lastAttempt

\* the step completes a successful authentication on the connection
AuthSucceedsOn(c) ==
    \/ \E h \in handlers \ handlers' :
          h.conn = c /\ h.pc = "await_auth" /\ h.authResult.success
    \/ /\ received'[c] # received[c]
       /\ \E data \in GwFrames :
             LET e == handleMessage(c, received[c] + 1, data, now)
             IN  /\ e.clients = authenticatedClients' /\ e.rateLimits = rateLimits'
                 /\ \E i \in 1..Len(e.envelopes) : e.envelopes[i].code = "authenticated"

\* C37, step part: a connection that has an identity loses or changes it only
\* in a step in which its socket closes, the idle sweep evicts it, or an auth
\* frame of the connection succeeds.
C37_Step ==
    \A c \in Conns :
        (/\ authenticatedClients[c].present
         /\ \/ ~authenticatedClients'[c].present
            \/ authenticatedClients'[c].user # authenticatedClients[c].user)
        => \/ sockets[c] # "closed" /\ sockets'[c] = "closed"
           \/ /\ now - authenticatedClients[c].lastActivity > IdleTimeoutMs
              /\ ~authenticatedClients'[c].present
           \/ AuthSucceedsOn(c)

\* C37: once a connection has authenticated it keeps that identity for every
\* subsequent frame until the socket closes, the idle sweep evicts it, or a
\* later auth frame on the connection succeeds; expiry or garbage collection
\* of the session token does not de-authenticate the connection, and a token's
\* validity does not depend on the session table.
C37_IdentityKept ==
    /\ [][C37_Step]_vars
    /\ [](\A token \in PresentableTokens :
            validateToken(sessions, token, now).result = validateToken({}, token, now).result)

\* the connection authenticated, its token has expired and has been collected,
\* and a later frame of the connection has been answered under its identity
C37_Witness ==
    /\ authenticatedClients["c1"].present
    /\ authenticatedClients["c1"].user.role = "admin"
    /\ issued # {} /\ sessions = {}
    /\ \A it \in issued : now > decodeToken(it.token).expiresAt
    /\ sent # <<>> /\ sent[1].code = "pong" /\ sent[1].seq = 2

\* a chunk inside quotes: a string literal or a quoted identifier
IsQuoted(ch) == ch \in {"'A'", "'a'"}

\* the statement with its keywords and unquoted identifiers in lower case and
\* its surrounding whitespace removed; quoted text is left as written
FoldUnquoted(sql) ==
    LET t == Trim(sql)
    IN  [i \in 1..Len(t) |-> IF IsQuoted(t[i]) THEN t[i] ELSE LowerChunk(t[i])]

\* the two calls are calls of the same statement with the same params
SameStatement(sqlA, paramsA, sqlB, paramsB) ==
    /\ paramsA = paramsB
    /\ FoldUnquoted(sqlA) = FoldUnquoted(sqlB)

\* C38: a cache hit never returns the rows of a different statement: when the
\* rows of an executed SELECT enter the cache, the entry answers a call only if
\* that call carries the same params and its SQL equals the executed SQL up to
\* surrounding whitespace and the letter case of keywords and unquoted
\* identifiers; and a hit returns the rows to a call of that kind only.
C38_HitOnlyForSameStatement ==
    [][\A in \in CacheInputs :
          (/\ dbCalls["a"].pc = "await_query" /\ dbCalls'["a"].pc = "idle"
           /\ ~MapHas(queryCache, generateCacheKey(in.sql, in.params))
           /\ MapHas(queryCache', generateCacheKey(in.sql, in.params)))
          => SameStatement(dbCalls["a"].sql, dbCalls["a"].params, in.sql, in.params)]_vars

\* the stored rate, hits / attempts * 100 (0 when attempts is 0), equals
\* 100 * h / (h + m) (0 when h + m is 0)
RateIs(rate, h, m) ==
    IF h + m = 0 \/ h = 0
    THEN rate.attempts = 0 \/ rate.hits = 0
    ELSE rate.attempts > 0 /\ rate.hits * (h + m) = h * rate.attempts

\* C39: whenever no query() call is in flight, the reported cacheHitRate equals
\* 100 * cacheHits / (cacheHits + cacheMisses), and 0 when both are zero, after
\* any sequence of successful, failed and cache-served query calls.
C39_HitRateCurrent ==
    (\A c \in DbCallers : dbCalls[c].pc = "idle")
    => RateIs(performanceMetrics.cacheHitRate, performanceMetrics.cacheHits,
              performanceMetrics.cacheMisses)

====
